---- MODULE Spec2Model ----
(***************************************************************************)
(* Difficulty_Map: the cutting-point builder (source/cutting_points.py),   *)
(* the CuttingPoint record (source/classes.py) and the difficulty          *)
(* propagation (source/dijkstra.py).                                       *)
(*                                                                         *)
(* Builder geometry: trails are straight LineStrings on one common axis;   *)
(* a coordinate is an integer number of ticks, one tick = 0.05 length      *)
(* units (so the reuse tolerance 0.2 is 4 ticks).  Set iteration in        *)
(* find_or_create_cutting_point is a nondeterministic choice among the     *)
(* matching members of the set.                                            *)
(***************************************************************************)
EXTENDS Integers, Sequences, FiniteSets, TLC

VARIABLES
    inp,                    \* build_cutting_points arguments: trails, trails_threshold, roads
    phase,                  \* position of the builder
    ti,                     \* index of the trail being processed (trails_dict key order)
    ek,                     \* index into the local list `endpoints`
    oj,                     \* index of the other trail examined by connect_to_neighbors
    endpoints,              \* per trail: the local list `endpoints` of create_cutting_points
    all_cutting_points,     \* the set of registered CuttingPoints (ids)
    geom,                   \* CuttingPoint.geom, by id
    is_connection_to_road,  \* CuttingPoint.is_connection_to_road, by id
    trails_dict,            \* per trail: list of CuttingPoint ids
    dict_neighbors,         \* per CuttingPoint: insertion-ordered dict neighbor -> list of trails
    run,                    \* 1 for the first run on the input, 2 for the second
    prev,                   \* outcome of the first run (positions, lists, neighbor relations)
    world,                  \* propagation inputs: trail geometries, raster src, roads, road flags
    best_diff,              \* CuttingPoint.best_diff, by id
    total_dist,             \* CuttingPoint.total_dist, by id
    total_elev_gain,        \* CuttingPoint.total_elev_gain, by id
    total_descent,          \* CuttingPoint.total_descent, by id
    dist_on_roads,          \* CuttingPoint.dist_on_roads, by id
    queue,                  \* the heapq list of dijkstra
    visited,                \* set of expanded CuttingPoints
    list_visited,           \* the same, in expansion order
    all_segments_dijk,      \* result collection
    trail_difficulty_by_distance,   \* dict trail -> difficulty map, as a set of pairs
    dpc,                    \* position of dijkstra
    cur,                    \* CuttingPoint being expanded by process_neighbors
    ni,                     \* index of the neighbor in cur's dict_neighbors
    tj,                     \* index of the trail in that neighbor's trail list
    calls,                  \* the compute_difficulty_between_points calls of the last relaxation
    metrics,                \* metrics summary returned by dijkstra
    pin,                    \* run_difficulty_analysis arguments and the raster extent
    ppc,                    \* position of run_difficulty_analysis
    stages,                 \* the stages run_difficulty_analysis has executed, in order
    graph,                  \* build_graph_from_trails: the Graph and the list it returns
    returned,               \* what run_difficulty_analysis returned, or the exception it raised
    gin,                    \* buffer inputs: segments, buffer_width, cell_size, altitude raster, weights
    gpc,                    \* position of the buffer analysis
    mask,                   \* generate_buffer_grid: the set of <<row, col>> cells set to 1
    transform,              \* generate_buffer_grid: origin and cell size of the grid
    results                 \* analyze_cells: the list of cell records

\* state of the builder
bvars == <<inp, phase, ti, ek, oj, endpoints, all_cutting_points, geom,
           is_connection_to_road, trails_dict, dict_neighbors, run, prev, graph>>

\* state of the propagation
dvars == <<world, best_diff, total_dist, total_elev_gain, total_descent, dist_on_roads,
           queue, visited, list_visited, all_segments_dijk, trail_difficulty_by_distance,
           dpc, cur, ni, tj, calls, metrics>>

\* state of run_difficulty_analysis
pvars == <<pin, ppc, stages, returned>>

\* state of the buffer analysis
gvars == <<gin, gpc, mask, transform, results>>

vars == <<bvars, dvars, pvars, gvars>>

----------------------------------------------------------------------------
(* Bounds of the builder inputs *)
MaxPos == 4
MaxThr == 2

(* Program constants, in ticks *)
Tol == 4
RoadTol == 800
Inf == 1000000000

----------------------------------------------------------------------------
(* Arithmetic helpers *)
Abs(x) == IF x < 0 THEN -x ELSE x
Min2(x, y) == IF x <= y THEN x ELSE y
Max2(x, y) == IF x >= y THEN x ELSE y

\* sum of the first n members of a sequence
RECURSIVE SumUpTo(_, _)
SumUpTo(s, n) == IF n = 0 THEN 0 ELSE s[n] + SumUpTo(s, n - 1)

SeqSum(s) == SumUpTo(s, Len(s))

InSeq(x, s) == \E i \in 1..Len(s) : s[i] = x

----------------------------------------------------------------------------
(* Geometry of a straight trail from coordinate a to coordinate b *)
Lo(t) == Min2(t.a, t.b)
Hi(t) == Max2(t.a, t.b)
Clamp(t, x) == IF x < Lo(t) THEN Lo(t) ELSE IF x > Hi(t) THEN Hi(t) ELSE x

\* Point.distance(Point)
distance(x, y) == Abs(x - y)
\* LineString.distance(Point)
trail_distance(t, x) == Abs(x - Clamp(t, x))
\* LineString.project(Point): distance along the line from its first coordinate
project(t, x) == Abs(Clamp(t, x) - t.a)
\* LineString.interpolate(d)
interpolate(t, d) ==
    LET dd == Min2(Max2(d, 0), Hi(t) - Lo(t))
    IN  IF t.a <= t.b THEN t.a + dd ELSE t.a - dd

\* Trail.endpoints()
trail_endpoints(t) == <<t.a, t.b>>

NumTrails == Len(inp.trails)
TrailAt(i) == inp.trails[i]

----------------------------------------------------------------------------
(* dict_neighbors of one CuttingPoint: a sequence of [nb, trails] entries  *)
(* in insertion order (a defaultdict(list)).                               *)
DNKeys(d) == {d[i].nb : i \in 1..Len(d)}
DNIndex(d, k) == CHOOSE i \in 1..Len(d) : d[i].nb = k
DNGet(d, k) == d[DNIndex(d, k)].trails
\* d[k] = [] when k is not yet a key
DNEnsure(d, k) == IF k \in DNKeys(d) THEN d ELSE Append(d, [nb |-> k, trails |-> <<>>])
\* d[k].append(t); a defaultdict creates the key on access
DNAppend(d, k, t) ==
    LET e == DNEnsure(d, k)
        i == DNIndex(e, k)
    IN  [e EXCEPT ![i].trails = Append(@, t)]

----------------------------------------------------------------------------
(* Inputs of build_cutting_points.  Coordinates lie on a grid of 3 ticks   *)
(* (0.15 units), so that endpoints can be closer than, or farther than,    *)
(* the reuse tolerance; thresholds are 0.05, 0.2 and 0.35 units.           *)
Coords == {3 * k : k \in 0..MaxPos}
Thresholds == {1 + 3 * k : k \in 0..MaxThr}
RoadInputs == {{}, {0}}

Trail(i, a, b) == [id |-> i, a |-> a, b |-> b]

\* roads_threshold: 40 units, and 0.35 units where there is a road
RoadThresholds(rd) == IF rd = {} THEN {RoadTol} ELSE {RoadTol, 7}

GenericInputs ==
    UNION {{[trails |-> <<Trail(1, a1, b1), Trail(2, a2, b2)>>, thr |-> th, roads |-> rd,
             roads_threshold |-> rt] :
                a1 \in Coords, b1 \in Coords, a2 \in Coords, b2 \in Coords,
                th \in Thresholds, rt \in RoadThresholds(rd)} : rd \in RoadInputs}

\* scenario A: [(0,0),(10,0)] and [(10,0),(20,0)], trails_threshold 1.0
ScenarioA == 
    [trails |-> <<Trail(1, 0, 200), Trail(2, 200, 400)>>, thr |-> 20, roads |-> {},
     roads_threshold |-> RoadTol]
\* scenario B: [(0,0),(5,0)] and [(5.1,0),(10,0)], trails_threshold 1.0 and 0.05
ScenarioB(th) == 
    [trails |-> <<Trail(1, 0, 100), Trail(2, 102, 200)>>, thr |-> th, roads |-> {},
     roads_threshold |-> RoadTol]
\* trails 0.5 apart, trails_threshold 1.0
ScenarioGap == 
    [trails |-> <<Trail(1, 0, 100), Trail(2, 110, 200)>>, thr |-> 20, roads |-> {},
     roads_threshold |-> RoadTol]

BuildInputs ==
    {x \in GenericInputs : \A i \in 1..Len(x.trails) : x.trails[i].a # x.trails[i].b}
    \cup {ScenarioA, ScenarioB(20), ScenarioB(1), ScenarioGap}

----------------------------------------------------------------------------
(* CuttingPoint.__init__: roads.distance(geom).min() < 40; the minimum of  *)
(* an empty distance series is NaN, which compares false.                  *)
CuttingPoint_is_connection_to_road(point, roads) ==
    roads # {} /\ \E r \in roads : distance(r, point) < RoadTol

\* find_or_create_cutting_point without the reuse loop: always a fresh CuttingPoint
find_or_create_always_new(point_geom) == {Len(geom) + 1}

(* find_or_create_cutting_point: the CuttingPoints the loop over the set   *)
(* can return for point_geom; a fresh id when none is within the           *)
(* tolerance.                                                              *)
find_or_create_cutting_point(point_geom) ==
    LET close == {cp \in all_cutting_points : distance(geom[cp], point_geom) < Tol}
    IN  IF close = {} THEN {Len(geom) + 1} ELSE close

IsNew(cp) == cp > Len(geom)

\* state of the CuttingPoint collections after cp was found or created for point_geom
GeomAfter(cp, point_geom) == IF IsNew(cp) THEN Append(geom, point_geom) ELSE geom
RoadFlagAfter(cp, point_geom) ==
    IF IsNew(cp)
    THEN Append(is_connection_to_road, CuttingPoint_is_connection_to_road(point_geom, inp.roads))
    ELSE is_connection_to_road
NeighborsAfter(cp) == IF IsNew(cp) THEN Append(dict_neighbors, <<>>) ELSE dict_neighbors

\* the trails other than trail i, in trails_dict order
OtherTrails(i) == SelectSeq([k \in 1..NumTrails |-> k], LAMBDA k : k # i)

\* position after the work on trail ti is finished
NextTrail ==
    /\ ek' = 1
    /\ oj' = 1
    /\ IF ti < NumTrails
       THEN ti' = ti + 1 /\ phase' = "endpoint"
       ELSE ti' = 1 /\ phase' = "order"

(* create_cutting_points, first loop: one endpoint of the trail.           *)
Endpoint ==
    /\ phase = "endpoint"
    /\ LET point == trail_endpoints(TrailAt(ti))[ek]
       IN  \E cp \in find_or_create_cutting_point(point) :
             /\ geom' = GeomAfter(cp, point)
             /\ is_connection_to_road' = RoadFlagAfter(cp, point)
             /\ dict_neighbors' = NeighborsAfter(cp)
             /\ all_cutting_points' = all_cutting_points \cup {cp}
             /\ trails_dict' = [trails_dict EXCEPT ![ti] = Append(@, cp)]
             /\ endpoints' = [endpoints EXCEPT ![ti] = Append(@, cp)]
             /\ IF ek = 1
                THEN ek' = 2 /\ oj' = oj /\ ti' = ti /\ phase' = phase
                ELSE IF OtherTrails(ti) = <<>>
                THEN NextTrail
                ELSE ek' = 1 /\ oj' = 1 /\ ti' = ti /\ phase' = "connect"
    /\ UNCHANGED <<inp, run, prev, graph>>
    /\ UNCHANGED <<dvars, pvars, gvars>>

\* the four "Add bidirectional references" statements of connect_to_neighbors
AddReferences(dn, endpoint, neighbor_endpoint, trail, neighbor_trail) ==
    LET d1 == [dn EXCEPT ![endpoint] = DNEnsure(@, neighbor_endpoint)]
        d2 == IF ~InSeq(trail, DNGet(d1[endpoint], neighbor_endpoint))
              THEN [d1 EXCEPT ![endpoint] = DNAppend(@, neighbor_endpoint, neighbor_trail)]
              ELSE d1
        d3 == [d2 EXCEPT ![neighbor_endpoint] = DNEnsure(@, endpoint)]
        d4 == IF ~InSeq(neighbor_trail, DNGet(d3[neighbor_endpoint], endpoint))
              THEN [d3 EXCEPT ![neighbor_endpoint] = DNAppend(@, endpoint, trail)]
              ELSE d3
    IN  d4

\* position after endpoint ek was examined against other trail number oj
NextConnect ==
    IF oj < Len(OtherTrails(ti))
    THEN /\ oj' = oj + 1
         /\ UNCHANGED <<ek, ti, phase>>
    ELSE IF ek < Len(endpoints[ti])
    THEN /\ ek' = ek + 1 /\ oj' = 1
         /\ UNCHANGED <<ti, phase>>
    ELSE NextTrail

(* connect_to_neighbors: one endpoint against one other trail.             *)
Connect ==
    /\ phase = "connect"
    /\ LET endpoint == endpoints[ti][ek]
           nt == OtherTrails(ti)[oj]
           neighbor_trail == TrailAt(nt)
       IN  IF trail_distance(neighbor_trail, geom[endpoint]) < inp.thr
           THEN LET proj_dist == project(neighbor_trail, geom[endpoint])
                    neighbor_pt == interpolate(neighbor_trail, proj_dist)
                IN  \E ne \in find_or_create_cutting_point(neighbor_pt) :
                      /\ geom' = GeomAfter(ne, neighbor_pt)
                      /\ is_connection_to_road' = RoadFlagAfter(ne, neighbor_pt)
                      /\ all_cutting_points' = all_cutting_points \cup {ne}
                      /\ trails_dict' = [trails_dict EXCEPT ![nt] = Append(@, ne)]
                      /\ dict_neighbors' =
                            AddReferences(NeighborsAfter(ne), endpoint, ne, ti, nt)
           ELSE UNCHANGED <<geom, is_connection_to_road, all_cutting_points,
                            trails_dict, dict_neighbors>>
    /\ NextConnect
    /\ UNCHANGED <<inp, endpoints, run, prev, graph>>
    /\ UNCHANGED <<dvars, pvars, gvars>>

----------------------------------------------------------------------------
(* order_cutting_points_along_trail: list.sort(key=proj_dist), stable.     *)
RECURSIVE InsertByKey(_, _, _)
InsertByKey(s, x, t) ==
    IF s = <<>> THEN <<x>>
    ELSE IF project(t, geom[x]) < project(t, geom[Head(s)])
         THEN <<x>> \o s
         ELSE <<Head(s)>> \o InsertByKey(Tail(s), x, t)

RECURSIVE SortByKey(_, _)
SortByKey(s, t) ==
    IF s = <<>> THEN <<>>
    ELSE InsertByKey(SortByKey(SubSeq(s, 1, Len(s) - 1), t), s[Len(s)], t)

\* the list left in insertion order
order_cutting_points_along_trail_unsorted(i) == trails_dict[i]

order_cutting_points_along_trail(i) == SortByKey(trails_dict[i], TrailAt(i))

(* build_cutting_points, second loop *)
Order ==
    /\ phase = "order"
    /\ trails_dict' = [i \in 1..NumTrails |-> order_cutting_points_along_trail(i)]
    /\ phase' = "intra"
    /\ UNCHANGED <<inp, ti, ek, oj, endpoints, all_cutting_points, geom,
                   is_connection_to_road, dict_neighbors, run, prev, graph>>
    /\ UNCHANGED <<dvars, pvars, gvars>>

\* cp1.dict_neighbors[cp2].append(trail); cp2.dict_neighbors[cp1].append(trail)
\* for the consecutive pairs of one trail's list, from pair number i on
RECURSIVE ConnectConsecutive(_, _, _, _)
ConnectConsecutive(dn, cps, trail, i) ==
    IF i >= Len(cps) THEN dn
    ELSE LET cp1 == cps[i]
             cp2 == cps[i + 1]
             d1 == [dn EXCEPT ![cp1] = DNAppend(@, cp2, trail)]
             d2 == [d1 EXCEPT ![cp2] = DNAppend(@, cp1, trail)]
         IN  ConnectConsecutive(d2, cps, trail, i + 1)

\* the loop over trails_dict.items(), from trail number i on
RECURSIVE ConnectAllTrails(_, _, _)
ConnectAllTrails(dn, lists, i) ==
    IF i > Len(lists) THEN dn
    ELSE ConnectAllTrails(ConnectConsecutive(dn, lists[i], i, 1), lists, i + 1)

(* build_cutting_points, third loop: intra-trail connections *)
Intra ==
    /\ phase = "intra"
    /\ dict_neighbors' = ConnectAllTrails(dict_neighbors, trails_dict, 1)
    /\ phase' = "built"
    /\ UNCHANGED <<inp, ti, ek, oj, endpoints, all_cutting_points, geom,
                   is_connection_to_road, trails_dict, run, prev, graph>>
    /\ UNCHANGED <<dvars, pvars, gvars>>

----------------------------------------------------------------------------
(* What a run returns, with CuttingPoints named by their positions: the    *)
(* set of positions, the per-trail lists, the neighbor relations.          *)
Outcome ==
    [points |-> {geom[cp] : cp \in all_cutting_points},
     lists |-> [i \in 1..NumTrails |-> [k \in 1..Len(trails_dict[i]) |-> geom[trails_dict[i][k]]]],
     neighbors |-> UNION {{<<geom[cp], geom[dict_neighbors[cp][k].nb], dict_neighbors[cp][k].trails>> :
                                k \in 1..Len(dict_neighbors[cp])} : cp \in 1..Len(dict_neighbors)}]

BuildStart ==
    /\ phase = "endpoint" /\ ti = 1 /\ ek = 1 /\ oj = 1
    /\ endpoints = [i \in 1..NumTrails |-> <<>>]
    /\ all_cutting_points = {}
    /\ geom = <<>>
    /\ is_connection_to_road = <<>>
    /\ trails_dict = [i \in 1..NumTrails |-> <<>>]
    /\ dict_neighbors = <<>>
    /\ graph = <<>>

(* The same input and configuration is run a second time. *)
Rerun ==
    /\ phase = "built" /\ run = 1
    /\ prev' = <<Outcome>>
    /\ run' = 2
    /\ phase' = "endpoint" /\ ti' = 1 /\ ek' = 1 /\ oj' = 1
    /\ endpoints' = [i \in 1..NumTrails |-> <<>>]
    /\ all_cutting_points' = {}
    /\ geom' = <<>>
    /\ is_connection_to_road' = <<>>
    /\ trails_dict' = [i \in 1..NumTrails |-> <<>>]
    /\ dict_neighbors' = <<>>
    /\ UNCHANGED <<inp, graph>>
    /\ UNCHANGED <<dvars, pvars, gvars>>

\* the propagation has not been started
DijkstraIdle ==
    /\ world = <<>>
    /\ best_diff = <<>> /\ total_dist = <<>> /\ total_elev_gain = <<>>
    /\ total_descent = <<>> /\ dist_on_roads = <<>>
    /\ queue = <<>> /\ visited = {} /\ list_visited = <<>>
    /\ all_segments_dijk = <<>> /\ trail_difficulty_by_distance = {}
    /\ dpc = "idle" /\ cur = 0 /\ ni = 0 /\ tj = 0
    /\ calls = <<>> /\ metrics = <<>>

\* run_difficulty_analysis has not been called
PipelineIdle == pin = <<>> /\ ppc = "idle" /\ stages = <<>> /\ returned = <<>>

\* the buffer analysis has not been started
BufferIdle ==
    gin = <<>> /\ gpc = "idle" /\ mask = {} /\ transform = <<>> /\ results = <<>>

BuildInit ==
    /\ inp \in BuildInputs
    /\ run = 1 /\ prev = <<>>
    /\ BuildStart
    /\ DijkstraIdle
    /\ PipelineIdle
    /\ BufferIdle

RECURSIVE Concat(_, _)
Concat(lists, i) == IF i > Len(lists) THEN <<>> ELSE lists[i] \o Concat(lists, i + 1)

\* Graph.add_edge for every pair: both orientations, both nodes
add_edges(g, pairs) ==
    [g EXCEPT !.edges = @ \cup pairs \cup {<<e[2], e[1]>> : e \in pairs},
              !.nodes = @ \cup {e[1] : e \in pairs} \cup {e[2] : e \in pairs}]

\* the consecutive pairs of every trail's list
ConsecutivePairs(lists) ==
    UNION {{<<lists[i][k], lists[i][k + 1]>> : k \in 1..(Len(lists[i]) - 1)} :
             i \in 1..Len(lists)}

\* add_intertrail_connections over set(all_cutting_points)
InterTrailPairs(dn, cps) ==
    UNION {{<<cp, nb>> : nb \in DNKeys(dn[cp])} : cp \in cps}

(* build_graph_from_trails: the edges of the consecutive CuttingPoints of  *)
(* every trail, the trail appended to both neighbor lists once more, then  *)
(* the edges of all neighbor relations.                                    *)
BuildGraph ==
    /\ phase = "built"
    /\ \E dn \in {ConnectAllTrails(dict_neighbors, trails_dict, 1)} :
         /\ dict_neighbors' = dn
         /\ graph' =
              LET cps == Concat(trails_dict, 1)
                  unique_cpoints == {cps[k] : k \in 1..Len(cps)}
                  g == add_edges(add_edges([edges |-> {}, nodes |-> {}],
                                           ConsecutivePairs(trails_dict)),
                                 InterTrailPairs(dn, unique_cpoints))
              IN  [edges |-> g.edges, nodes |-> g.nodes, all_cutting_points |-> cps]
    /\ phase' = "graph"
    /\ UNCHANGED <<inp, ti, ek, oj, endpoints, all_cutting_points, geom,
                   is_connection_to_road, trails_dict, run, prev>>
    /\ UNCHANGED <<dvars, pvars, gvars>>

BuildNext == Endpoint \/ Connect \/ Order \/ Intra \/ Rerun \/ BuildGraph

SpecBuild == BuildInit /\ [][BuildNext]_vars

----------------------------------------------------------------------------
(* Properties of the builder *)
Built == phase = "built"
ListSet(i) == {trails_dict[i][k] : k \in 1..Len(trails_dict[i])}
IsNeighbor(a, b) == b \in DNKeys(dict_neighbors[a])
\* distance between the geometries of two trails
TrailGap(i, j) ==
    Max2(0, Max2(Lo(TrailAt(i)) - Hi(TrailAt(j)), Lo(TrailAt(j)) - Hi(TrailAt(i))))

(* C3: two trail endpoints less than 0.2 units apart are resolved to the   *)
(* same CuttingPoint, whatever the processing order and the cutting points *)
(* that already exist.                                                     *)
C3_CloseEndpointsShareCuttingPoint ==
    Built =>
        \A i \in 1..NumTrails, j \in 1..NumTrails : \A k \in 1..2, l \in 1..2 :
            distance(trail_endpoints(TrailAt(i))[k], trail_endpoints(TrailAt(j))[l]) < Tol
                => endpoints[i][k] = endpoints[j][l]

\* the CuttingPoints of trail j that lie at the projection of CuttingPoint e on trail j
AtProjection(e, j) ==
    {n \in ListSet(j) :
        distance(geom[n], interpolate(TrailAt(j), project(TrailAt(j), geom[e]))) < Tol}

(* C4: an endpoint within trails_threshold of another trail and the        *)
(* CuttingPoint at its projection on that trail are keys of each other's   *)
(* dict_neighbors, and one connecting trail is named by both trail lists.  *)
C4_BidirectionalSameTrail ==
    Built =>
        \A i \in 1..NumTrails, j \in 1..NumTrails : \A k \in 1..2 :
            (i # j /\ trail_distance(TrailAt(j), trail_endpoints(TrailAt(i))[k]) < inp.thr)
                => LET e == endpoints[i][k]
                   IN  \E n \in AtProjection(e, j) :
                         /\ IsNeighbor(e, n)
                         /\ IsNeighbor(n, e)
                         /\ \E t \in 1..NumTrails :
                              /\ InSeq(t, DNGet(dict_neighbors[e], n))
                              /\ InSeq(t, DNGet(dict_neighbors[n], e))

(* C5: for two trails whose geometries are farther apart than              *)
(* trails_threshold no cutting point of one is a neighbor of a cutting     *)
(* point of the other; in scenario B with threshold 0.05 the end of the    *)
(* first trail and the start of the second are not neighbors.              *)
C5_NoRelationBeyondThreshold ==
    Built =>
        \A i \in 1..NumTrails, j \in 1..NumTrails :
            (i # j /\ TrailGap(i, j) > inp.thr)
                => /\ \A a \in ListSet(i), b \in ListSet(j) : ~IsNeighbor(a, b) /\ ~IsNeighbor(b, a)
                   /\ ~IsNeighbor(endpoints[i][2], endpoints[j][1])
                   /\ ~IsNeighbor(endpoints[j][1], endpoints[i][2])

(* C6: in scenario A exactly one CuttingPoint is common to the two trails' *)
(* lists and each list has length 2.                                       *)
C6_ScenarioAShared ==
    (Built /\ inp = ScenarioA) =>
        /\ Cardinality(ListSet(1) \cap ListSet(2)) = 1
        /\ Len(trails_dict[1]) = 2
        /\ Len(trails_dict[2]) = 2

(* C7: after build_cutting_points the projected distances of every trail's *)
(* CuttingPoint list are in ascending order.                               *)
C7_ListsSorted ==
    Built =>
        \A i \in 1..NumTrails : \A k \in 1..(Len(trails_dict[i]) - 1) :
            project(TrailAt(i), geom[trails_dict[i][k]])
                <= project(TrailAt(i), geom[trails_dict[i][k + 1]])

\* a built trail list of three CuttingPoints at three different projected
\* distances whose last endpoint was not the last CuttingPoint added to it
C7_Witness ==
    /\ Built
    /\ \E i \in 1..NumTrails :
         /\ Len(trails_dict[i]) >= 3
         /\ Cardinality({project(TrailAt(i), geom[c]) : c \in ListSet(i)}) >= 3
         /\ TrailAt(i).b < TrailAt(i).a

(* C8: two runs on identical input and configuration give identical        *)
(* cutting-point sets, per-trail lists and neighbor relations.             *)
C8_RunsIdentical == (Built /\ run = 2) => prev = <<Outcome>>

\* build_graph_from_trails has returned
Assembled == phase = "graph"

\* the minimum distance from the point to the road layer is below the threshold
NearRoads(point, roads, threshold) == \E r \in roads : distance(r, point) < threshold

(* C27: in every state of build_cutting_points any two distinct            *)
(* CuttingPoints registered in all_cutting_points have positions at least  *)
(* 0.2 apart, hence never equal positions.                                 *)
C27_RegisteredApart ==
    \A a \in all_cutting_points : \A b \in all_cutting_points :
        a # b => distance(geom[a], geom[b]) >= Tol /\ geom[a] # geom[b]

\* a trail endpoint closer than 0.2 to a registered CuttingPoint at another
\* position was resolved to it, and several CuttingPoints are registered
C27_Witness ==
    /\ Cardinality(all_cutting_points) >= 2
    /\ \E i \in 1..NumTrails :
         /\ Len(endpoints[i]) = 2
         /\ \E k \in 1..2 :
              LET x == trail_endpoints(TrailAt(i))[k]
              IN  /\ geom[endpoints[i][k]] # x
                  /\ distance(geom[endpoints[i][k]], x) < Tol

(* C19: is_connection_to_road of a CuttingPoint is true exactly when the   *)
(* minimum distance from its position to the road layer is below the       *)
(* roads_threshold given to build_cutting_points, also after graph         *)
(* assembly.                                                               *)
C19_RoadFlagFollowsThreshold ==
    (Built \/ Assembled) =>
        \A cp \in all_cutting_points :
            is_connection_to_road[cp] = NearRoads(geom[cp], inp.roads, inp.roads_threshold)

\* the sequence s holds no element twice
NoRepeat(s) == \A i, j \in 1..Len(s) : s[i] = s[j] => i = j

(* C15: after build_cutting_points and build_graph_from_trails no trail    *)
(* list a.dict_neighbors[b] holds a trail more than once, for inter-trail  *)
(* and for intra-trail connections alike.                                  *)
C15_NoTrailTwice ==
    Assembled =>
        \A a \in 1..Len(dict_neighbors) :
            \A k \in 1..Len(dict_neighbors[a]) : NoRepeat(dict_neighbors[a][k].trails)

(* C26: after build_cutting_points and build_graph_from_trails no          *)
(* CuttingPoint is a key of its own dict_neighbors, no trail's list holds  *)
(* a CuttingPoint twice, and the graph has no edge from a CuttingPoint to  *)
(* itself.                                                                 *)
C26_NoSelfLoop ==
    Assembled =>
        /\ \A cp \in 1..Len(dict_neighbors) : cp \notin DNKeys(dict_neighbors[cp])
        /\ \A i \in 1..NumTrails : NoRepeat(trails_dict[i])
        /\ \A e \in graph.edges : e[1] # e[2]

----------------------------------------------------------------------------
(* Propagation (source/dijkstra.py).  A trail of the propagation world has *)
(* a length and, for every CuttingPoint, the distance trail.geom.project   *)
(* gives for it.  The raster src is sampled along the trail: the cell of   *)
(* the point at distance d along trail t is number d \div world.cell of    *)
(* the strip world.raster[t].                                              *)

(* Bounds of the propagation inputs *)
MaxVal == 1
MaxSeeds == 2

(* Program constants *)
n_points == 50
dist_step == 50
DefaultNodata == -9999

\* arithmetic on float values, +infinity included
Plus(x, y) == IF x = Inf \/ y = Inf THEN Inf ELSE x + y

\* src.nodata if src.nodata is not None else -9999.0
\* (src.nodata is <<>> for None, <<v>> for the value v)
Nodata == IF world.src_nodata = <<>> THEN DefaultNodata ELSE world.src_nodata[1]

(* build_segment / the while loop of compute_difficulty_between_points:    *)
(* contiguous steps from current_dist to max_dist.                         *)
RECURSIVE build_segments(_, _)
build_segments(current_dist, max_dist) ==
    IF current_dist < max_dist
    THEN LET next_dist == Min2(current_dist + dist_step, max_dist)
         IN  <<[start_dist |-> current_dist, end_dist |-> next_dist]>>
                 \o build_segments(next_dist, max_dist)
    ELSE <<>>

Reverse(s) == [i \in 1..Len(s) |-> s[Len(s) + 1 - i]]

\* raster value at sample number i (0-based) of np.linspace(0, length, n_points)
\* along the step seg of trail t
SampleAt(t, seg, i) ==
    LET length == seg.end_dist - seg.start_dist
        cell == (seg.start_dist * (n_points - 1) + i * length) \div ((n_points - 1) * world.cell)
    IN  world.raster[t][cell + 1]

\* all sampled values of the step, in sampling order
RawSamples(t, seg) == [i \in 1..n_points |-> SampleAt(t, seg, i - 1)]

\* values[values != nodata], with every sample kept
sample_values_unfiltered(t, seg) == RawSamples(t, seg)

(* sample_valid_raster_values *)
sample_valid_raster_values(t, seg) ==
    SelectSeq(RawSamples(t, seg), LAMBDA v : v # Nodata)

\* np.nansum(values), the absolute values not taken
seg_diff_signed(values) == SeqSum(values)

\* np.nansum(np.abs(values))
seg_diff_of(values) == SeqSum([i \in 1..Len(values) |-> Abs(values[i])])

\* the loop "for i in range(1, len(values))": sum of the positive deltas
elevation_gain_of(values) ==
    SeqSum([i \in 1..(Len(values) - 1) |->
               IF values[i + 1] - values[i] > 0 THEN values[i + 1] - values[i] ELSE 0])
\* sum of the other deltas
descent_of(values) ==
    SeqSum([i \in 1..(Len(values) - 1) |->
               IF values[i + 1] - values[i] > 0 THEN 0 ELSE values[i + 1] - values[i]])

\* dict[key] = value on a dict kept as a set of <<key, value>> pairs
DictSet(m, k, v) == {q \in m : q[1] # k} \cup {<<k, v>>}
DictKeys(m) == {q[1] : q \in m}
DictGet(m, k) == (CHOOSE q \in m : q[1] = k)[2]

(* compute_difficulty_between_points, the loop over the steps: acc holds   *)
(* the running totals, the results list and difficulty_at_distances.       *)
RECURSIVE difficulty_loop(_, _, _, _, _, _)
difficulty_loop(segments, cp, neighbor_cp, t, direction, acc) ==
    IF segments = <<>> THEN acc
    ELSE
      LET seg == Head(segments)
          values == sample_valid_raster_values(t, seg)
      IN  IF Len(values) = 0
          THEN difficulty_loop(Tail(segments), cp, neighbor_cp, t, direction, acc)
          ELSE
            LET segment_length == seg.end_dist - seg.start_dist
                seg_diff == seg_diff_of(values)
                elevation_gain == elevation_gain_of(values)
                descent == descent_of(values)
                td == Plus(acc.total_diff, seg_diff)
                tl == Plus(acc.total_dist, segment_length)
                tg == Plus(acc.total_elev_gain, elevation_gain)
                ts == Plus(acc.total_descent, descent)
                dist_key == IF direction = 1 THEN seg.start_dist ELSE seg.end_dist
                result == [geometry |-> <<seg.start_dist, seg.end_dist>>,
                           seg_diff |-> seg_diff,
                           total_diff |-> td,
                           posit_seg |-> dist_key,
                           dist_road |-> dist_on_roads[cp],
                           trail_id |-> t,
                           start_cp |-> cp,
                           end_cp |-> neighbor_cp,
                           segment_length |-> segment_length,
                           total_dist |-> tl,
                           elevation_gain |-> elevation_gain,
                           total_elev_gain |-> tg,
                           descent |-> descent,
                           total_descent |-> ts]
            IN  difficulty_loop(Tail(segments), cp, neighbor_cp, t, direction,
                    [total_diff |-> td, total_dist |-> tl,
                     total_elev_gain |-> tg, total_descent |-> ts,
                     results |-> Append(acc.results, result),
                     difficulty_at_distances |-> DictSet(acc.difficulty_at_distances, dist_key, td)])

(* compute_difficulty_between_points(src, cp, neighbor_cp, trail) *)
compute_difficulty_between_points(cp, neighbor_cp, t) ==
    LET dist_cp == world.trails[t].at[cp]
        dist_neighbor == world.trails[t].at[neighbor_cp]
        min_dist == Min2(dist_cp, dist_neighbor)
        max_dist == Max2(dist_cp, dist_neighbor)
        forward == build_segments(min_dist, max_dist)
        direction == IF dist_cp = min_dist THEN 1 ELSE -1
        segments == IF direction = -1 THEN Reverse(forward) ELSE forward
    IN  difficulty_loop(segments, cp, neighbor_cp, t, direction,
            [total_diff |-> best_diff[cp], total_dist |-> total_dist[cp],
             total_elev_gain |-> total_elev_gain[cp], total_descent |-> total_descent[cp],
             results |-> <<>>, difficulty_at_distances |-> {}])

\* no stored segment is discarded
remove_segments_none(all_segments, trail_id, cp1, cp2) == all_segments

(* remove_segments_between *)
remove_segments_between(all_segments, trail_id, cp1, cp2) ==
    SelectSeq(all_segments,
        LAMBDA seg : ~(/\ seg.trail_id = trail_id
                       /\ \/ (seg.start_cp = cp1 /\ seg.end_cp = cp2)
                          \/ (seg.start_cp = cp2 /\ seg.end_cp = cp1)))

\* sorted(set): the members of a set of numbers in ascending order
RECURSIVE SortedSeq(_)
SortedSeq(S) ==
    IF S = {} THEN <<>>
    ELSE LET m == CHOOSE x \in S : \A y \in S : x <= y
         IN  <<m>> \o SortedSeq(S \ {m})

\* {seg["posit_seg"]: seg for seg in segments}.get(d): the last segment with that key
SegByDist(segments, d) ==
    LET idx == {i \in 1..Len(segments) : segments[i].posit_seg = d}
    IN  IF idx = {} THEN <<>>
        ELSE <<segments[CHOOSE i \in idx : \A k \in idx : k <= i]>>

(* merge_segments_and_difficulties, the loop over all_distances *)
RECURSIVE merge_loop(_, _, _, _, _, _)
merge_loop(ds, segments_fwd, diff_map_fwd, segments_bwd, diff_map_bwd, acc) ==
    IF ds = <<>> THEN acc
    ELSE
      LET d == Head(ds)
          val_fwd == IF d \in DictKeys(diff_map_fwd) THEN DictGet(diff_map_fwd, d) ELSE Inf
          val_bwd == IF d \in DictKeys(diff_map_bwd) THEN DictGet(diff_map_bwd, d) ELSE Inf
          fwd == val_fwd <= val_bwd
          seg == IF fwd THEN SegByDist(segments_fwd, d) ELSE SegByDist(segments_bwd, d)
      IN  merge_loop(Tail(ds), segments_fwd, diff_map_fwd, segments_bwd, diff_map_bwd,
              [merged_segments |-> acc.merged_segments \o seg,
               merged_diff_map |-> DictSet(acc.merged_diff_map, d,
                                           IF fwd THEN val_fwd ELSE val_bwd)])

\* the forward segments and difficulties are kept as they are
merge_keep_forward(segments_fwd, diff_map_fwd, segments_bwd, diff_map_bwd) ==
    [merged_segments |-> segments_fwd, merged_diff_map |-> diff_map_fwd]

(* merge_segments_and_difficulties *)
merge_segments_and_difficulties(segments_fwd, diff_map_fwd, segments_bwd, diff_map_bwd) ==
    merge_loop(SortedSeq(DictKeys(diff_map_fwd) \cup DictKeys(diff_map_bwd)),
               segments_fwd, diff_map_fwd, segments_bwd, diff_map_bwd,
               [merged_segments |-> <<>>, merged_diff_map |-> {}])

----------------------------------------------------------------------------
(* heapq on a list of CuttingPoints; CuttingPoint.__lt__ compares the      *)
(* best_diff the two objects hold at the time of the comparison (bd).      *)
CuttingPoint_lt(bd, x, y) == bd[x] < bd[y]

RECURSIVE siftdown(_, _, _, _, _)
siftdown(bd, heap, startpos, pos, newitem) ==
    IF pos > startpos /\ CuttingPoint_lt(bd, newitem, heap[pos \div 2])
    THEN siftdown(bd, [heap EXCEPT ![pos] = heap[pos \div 2]], startpos, pos \div 2, newitem)
    ELSE [heap EXCEPT ![pos] = newitem]

RECURSIVE siftup(_, _, _, _)
siftup(bd, heap, pos, newitem) ==
    LET childpos == 2 * pos
        rightpos == childpos + 1
    IN  IF childpos <= Len(heap)
        THEN LET c == IF rightpos <= Len(heap)
                         /\ ~CuttingPoint_lt(bd, heap[childpos], heap[rightpos])
                      THEN rightpos ELSE childpos
             IN  siftup(bd, [heap EXCEPT ![pos] = heap[c]], c, newitem)
        ELSE siftdown(bd, [heap EXCEPT ![pos] = newitem], 1, pos, newitem)

\* the item is not added
heappush_nothing(bd, heap, cp) == heap

(* heapq.heappush(queue, cp) *)
heappush(bd, heap, cp) == siftdown(bd, Append(heap, cp), 1, Len(heap) + 1, cp)

\* the smallest item is returned and left in the heap
heappop_peek(bd, heap) == <<heap[1], heap>>

(* heapq.heappop(queue): <<returned item, remaining heap>> *)
heappop(bd, heap) ==
    LET lastelt == heap[Len(heap)]
        rest == SubSeq(heap, 1, Len(heap) - 1)
    IN  IF rest = <<>> THEN <<lastelt, rest>>
        ELSE <<rest[1], siftup(bd, [rest EXCEPT ![1] = lastelt], 1, lastelt)>>

----------------------------------------------------------------------------
(* dist_on_road(roads_gdf, cp, road_starting_point).  The road layer       *)
(* world.roads is a sequence of roads; a road is a horizontal segment from *)
(* (0, y) to (len, y) of kind "LineString" or "MultiLineString".           *)
(* world.road_geom[cp] and world.start_point are <<x, y>> positions.       *)

\* geometry.distance(point), squared
road_distance2(road, pt) ==
    LET dx == IF pt[1] < 0 THEN -pt[1] ELSE IF pt[1] > road.len THEN pt[1] - road.len ELSE 0
    IN  dx * dx + (pt[2] - road.y) * (pt[2] - road.y)

\* road_geom.project(point)
road_project(road, pt) == IF pt[1] < 0 THEN 0 ELSE IF pt[1] > road.len THEN road.len ELSE pt[1]

\* distances.idxmin(): the first road at the least distance
closest_idx(pt) ==
    CHOOSE i \in 1..Len(world.roads) :
        /\ \A k \in 1..Len(world.roads) :
               road_distance2(world.roads[i], pt) <= road_distance2(world.roads[k], pt)
        /\ \A k \in 1..(i - 1) :
               road_distance2(world.roads[k], pt) > road_distance2(world.roads[i], pt)

\* total_dist += dist_step, whatever is left of the road stretch
RECURSIVE road_loop_whole_steps(_, _, _)
road_loop_whole_steps(current_dist, max_dist, total) ==
    IF current_dist < max_dist
    THEN road_loop_whole_steps(Min2(current_dist + dist_step, max_dist), max_dist,
                               total + dist_step)
    ELSE total

\* the while loop: total_dist += segment.length for steps of at most dist_step
RECURSIVE road_loop(_, _, _)
road_loop(current_dist, max_dist, total) ==
    IF current_dist < max_dist
    THEN LET next_dist == Min2(current_dist + dist_step, max_dist)
         IN  road_loop(next_dist, max_dist, total + (next_dist - current_dist))
    ELSE total

\* the body of the try block: idxmin of an empty series raises ValueError
dist_on_road_try(cp) ==
    IF Len(world.roads) = 0 THEN [raised |-> TRUE, value |-> Inf]
    ELSE LET road_geom == world.roads[closest_idx(world.road_geom[cp])]
             dist_cp == road_project(road_geom, world.road_geom[cp])
             dist_start_point == road_project(road_geom, world.start_point)
         IN  IF road_geom.kind # "LineString" THEN [raised |-> FALSE, value |-> Inf]
             ELSE [raised |-> FALSE,
                   value |-> road_loop(Min2(dist_cp, dist_start_point),
                                       Max2(dist_cp, dist_start_point), 0)]

\* dist_on_road without the except clause
dist_on_road_uncaught(cp) == dist_on_road_try(cp)

\* dist_on_road: except Exception: return float("inf")
dist_on_road(cp) ==
    IF dist_on_road_try(cp).raised THEN [raised |-> FALSE, value |-> Inf]
    ELSE dist_on_road_try(cp)

\* no starting CuttingPoint is initialized or pushed
initialize_queue_nothing(starting_cps, i, st) == st

(* initialize_queue: the loop over starting_cps, from number i on; st is   *)
(* the record of the cost fields and the queue.  An exception of           *)
(* dist_on_road would end the loop.                                        *)
RECURSIVE initialize_queue(_, _, _)
initialize_queue(starting_cps, i, st) ==
    IF i > Len(starting_cps) THEN st
    ELSE LET cp == starting_cps[i]
             bd == [st.best_diff EXCEPT ![cp] = 0]
             road == dist_on_road(cp)
         IN  IF road.raised
             THEN [best_diff |-> bd,
                   total_dist |-> [st.total_dist EXCEPT ![cp] = 0],
                   total_elev_gain |-> [st.total_elev_gain EXCEPT ![cp] = 0],
                   total_descent |-> [st.total_descent EXCEPT ![cp] = 0],
                   dist_on_roads |-> st.dist_on_roads,
                   queue |-> st.queue,
                   raised |-> TRUE]
             ELSE initialize_queue(starting_cps, i + 1,
                 [best_diff |-> bd,
                  total_dist |-> [st.total_dist EXCEPT ![cp] = 0],
                  total_elev_gain |-> [st.total_elev_gain EXCEPT ![cp] = 0],
                  total_descent |-> [st.total_descent EXCEPT ![cp] = 0],
                  dist_on_roads |-> [st.dist_on_roads EXCEPT ![cp] = road.value],
                  queue |-> heappush(bd, st.queue, cp),
                  raised |-> FALSE])

----------------------------------------------------------------------------
(* Propagation worlds.  A junction network has one two-point trail per     *)
(* edge <<a, b, length>>.  The neighbor relations are the intra-trail      *)
(* connections of build_cutting_points, appended once more by              *)
(* build_graph_from_trails.                                                *)
NumCells(len, cell) == len \div cell + 1

\* one straight road of 130 units; CuttingPoint cp lies on it at 10 * cp and
\* the start point at its far end
MainRoad == <<[kind |-> "LineString", y |-> 0, len |-> 130]>>
OnMainRoad(cp) == <<10 * cp, 0>>

SeedSets(ncp) == {S \in SUBSET (1..ncp) : Cardinality(S) <= MaxSeeds}

GraphOf(ncp, lists) ==
    ConnectAllTrails(ConnectAllTrails([cp \in 1..ncp |-> <<>>], lists, 1), lists, 1)

JunctionWorld(ncp, edges, vals, seeds) ==
    [ncp |-> ncp,
     lists |-> [i \in 1..Len(edges) |-> <<edges[i][1], edges[i][2]>>],
     trails |-> [i \in 1..Len(edges) |->
                   [len |-> edges[i][3],
                    at |-> [cp \in 1..ncp |-> IF cp = edges[i][2] THEN edges[i][3] ELSE 0]]],
     cell |-> 50,
     raster |-> [i \in 1..Len(edges) |-> [c \in 1..NumCells(edges[i][3], 50) |-> vals[i]]],
     src_nodata |-> <<>>,
     seeds |-> seeds,
     roads |-> MainRoad,
     road_geom |-> [cp \in 1..ncp |-> OnMainRoad(cp)],
     start_point |-> <<130, 0>>]

\* five junctions, five trails of 25 units
Net5Edges == <<<<2, 3, 25>>, <<3, 1, 25>>, <<2, 1, 25>>, <<4, 2, 25>>, <<5, 3, 25>>>>

Net5Worlds ==
    {JunctionWorld(5, Net5Edges, vals, S) :
        vals \in [1..Len(Net5Edges) -> 0..MaxVal], S \in SeedSets(5)}

\* one trail of 175 units carrying three CuttingPoints at 0, 25 and 175,
\* over a raster of 50-unit cells
LineVals == (-1..MaxVal) \cup {DefaultNodata}

LineWorlds ==
    {[ncp |-> 3,
      lists |-> << <<1, 2, 3>> >>,
      trails |-> << [len |-> 175, at |-> <<0, 25, 175>>] >>,
      cell |-> 50,
      raster |-> <<r>>,
      src_nodata |-> nd,
      seeds |-> S,
      roads |-> MainRoad,
      road_geom |-> [cp \in 1..3 |-> OnMainRoad(cp)],
      start_point |-> <<130, 0>>] :
        r \in [1..NumCells(175, 50) -> LineVals], nd \in {<<>>, <<0>>}, S \in SeedSets(3)}

\* scenario C: a seed and one neighbor 50 units along a trail where the raster is 2
ScenarioC ==
    [ncp |-> 2,
     lists |-> << <<1, 2>> >>,
     trails |-> << [len |-> 50, at |-> <<0, 50>>] >>,
     cell |-> 50,
     raster |-> << [c \in 1..NumCells(50, 50) |-> 2] >>,
     src_nodata |-> <<>>,
     seeds |-> {1},
     roads |-> MainRoad,
     road_geom |-> [cp \in 1..2 |-> OnMainRoad(cp)],
     start_point |-> <<130, 0>>]

\* road layers: none, one road, one road that is not a LineString, two
\* parallel roads 100 units apart (which share no point) in either order
NearRoad(kind) == [kind |-> kind, y |-> 0, len |-> 120]
FarRoad == [kind |-> "LineString", y |-> 100, len |-> 120]

RoadLayers ==
    {<<>>, <<NearRoad("LineString")>>, <<NearRoad("MultiLineString")>>,
     <<NearRoad("LineString"), FarRoad>>, <<FarRoad, NearRoad("LineString")>>}

RoadXs == {0, 30, 120, 140}

\* one seedable trail of 25 units beside the roads: its first CuttingPoint 10
\* units from the near road, the start point on the near or on the far road
RoadWorlds ==
    {[ncp |-> 2,
      lists |-> << <<1, 2>> >>,
      trails |-> << [len |-> 25, at |-> <<0, 25>>] >>,
      cell |-> 50,
      raster |-> << <<1>> >>,
      src_nodata |-> <<>>,
      seeds |-> S,
      roads |-> layer,
      road_geom |-> <<<<x, 10>>, <<x, 35>>>>,
      start_point |-> sp] :
        S \in SeedSets(2), layer \in RoadLayers, x \in RoadXs,
        sp \in {<<sx, 0>> : sx \in RoadXs} \cup {<<60, 100>>}}

\* a trail whose list holds its first CuttingPoint twice, as the builder
\* leaves it when two endpoints resolve to one CuttingPoint: the point is its
\* own neighbor
LoopWorlds ==
    {[ncp |-> 2,
      lists |-> << <<1, 1, 2>> >>,
      trails |-> << [len |-> 25, at |-> <<0, 25>>] >>,
      cell |-> 50,
      raster |-> << <<v>> >>,
      src_nodata |-> <<>>,
      seeds |-> S,
      roads |-> MainRoad,
      road_geom |-> [cp \in 1..2 |-> OnMainRoad(cp)],
      start_point |-> <<130, 0>>] :
        v \in 0..MaxVal, S \in SeedSets(2)}

\* two trails of 25 units that share no CuttingPoint
SplitEdges == <<<<1, 2, 25>>, <<3, 4, 25>>>>

SplitWorlds ==
    {JunctionWorld(4, SplitEdges, vals, S) :
        vals \in [1..Len(SplitEdges) -> 0..MaxVal], S \in SeedSets(4)}

Worlds ==
    Net5Worlds \cup LineWorlds \cup {ScenarioC} \cup RoadWorlds \cup LoopWorlds
        \cup SplitWorlds

\* build_graph_from_trails: all_cutting_points.extend(cps) for every trail
graph_all_cutting_points == Concat(trails_dict, 1)

\* run_difficulty_analysis: [cp for cp in all_cutting_points if cp.is_connection_to_road]
starting_points == SelectSeq(graph_all_cutting_points, LAMBDA cp : is_connection_to_road[cp])

CPs == 1..world.ncp

----------------------------------------------------------------------------
(* dijkstra *)

\* the builder has returned; its working variables are not used any more
BuilderDone ==
    /\ inp = <<>> /\ phase = "built" /\ ti = 1 /\ ek = 1 /\ oj = 1
    /\ endpoints = <<>> /\ geom = <<>> /\ run = 1 /\ prev = <<>> /\ graph = <<>>

DijkstraInit ==
    /\ world \in Worlds
    /\ BuilderDone
    /\ all_cutting_points = 1..world.ncp
    /\ trails_dict = world.lists
    /\ dict_neighbors = GraphOf(world.ncp, world.lists)
    /\ is_connection_to_road = [cp \in 1..world.ncp |-> cp \in world.seeds]
    \* CuttingPoint.__init__
    /\ best_diff = [cp \in 1..world.ncp |-> Inf]
    /\ total_dist = [cp \in 1..world.ncp |-> Inf]
    /\ total_elev_gain = [cp \in 1..world.ncp |-> Inf]
    /\ total_descent = [cp \in 1..world.ncp |-> Inf]
    /\ dist_on_roads = [cp \in 1..world.ncp |-> Inf]
    /\ queue = <<>> /\ visited = {} /\ list_visited = <<>>
    /\ all_segments_dijk = <<>> /\ trail_difficulty_by_distance = {}
    /\ dpc = "start" /\ cur = 0 /\ ni = 0 /\ tj = 0
    /\ calls = <<>> /\ metrics = <<>>
    /\ PipelineIdle
    /\ BufferIdle

(* dijkstra, lines 276-280: the collections and the seeded queue *)
InitializeQueue ==
    /\ dpc = "start"
    /\ \E st \in {initialize_queue(starting_points, 1,
                    [best_diff |-> best_diff, total_dist |-> total_dist,
                     total_elev_gain |-> total_elev_gain, total_descent |-> total_descent,
                     dist_on_roads |-> dist_on_roads, queue |-> <<>>,
                     raised |-> FALSE])} :
           /\ best_diff' = st.best_diff
           /\ total_dist' = st.total_dist
           /\ total_elev_gain' = st.total_elev_gain
           /\ total_descent' = st.total_descent
           /\ dist_on_roads' = st.dist_on_roads
           /\ queue' = st.queue
           /\ dpc' = IF st.raised THEN "raised" ELSE "loop"
    /\ all_segments_dijk' = <<>>
    /\ trail_difficulty_by_distance' = {}
    /\ visited' = {}
    /\ list_visited' = <<>>
    /\ UNCHANGED <<world, cur, ni, tj, calls, metrics>>
    /\ UNCHANGED <<bvars, pvars, gvars>>

\* the first neighbor entry of cp, from number i on, whose trail list is not empty
RECURSIVE FirstEntry(_, _)
FirstEntry(cp, i) ==
    IF i > Len(dict_neighbors[cp]) THEN 0
    ELSE IF Len(dict_neighbors[cp][i].trails) > 0 THEN i
    ELSE FirstEntry(cp, i + 1)

(* the main loop: pop, skip a visited CuttingPoint, else mark it and start *)
(* process_neighbors                                                       *)
Pop ==
    /\ dpc = "loop"
    /\ queue # <<>>
    /\ \E r \in {heappop(best_diff, queue)} : \E cp \in {r[1]} :
           /\ queue' = r[2]
           /\ IF cp \in visited
              THEN UNCHANGED <<visited, list_visited, dpc, cur, ni, tj>>
              ELSE /\ visited' = visited \cup {cp}
                   /\ list_visited' = Append(list_visited, cp)
                   /\ IF FirstEntry(cp, 1) = 0
                      THEN UNCHANGED <<dpc, cur, ni, tj>>
                      ELSE /\ dpc' = "relax"
                           /\ cur' = cp
                           /\ ni' = FirstEntry(cp, 1)
                           /\ tj' = 1
    /\ UNCHANGED <<world, best_diff, total_dist, total_elev_gain, total_descent,
                   dist_on_roads, all_segments_dijk, trail_difficulty_by_distance,
                   calls, metrics>>
    /\ UNCHANGED <<bvars, pvars, gvars>>

\* the test "neighbor_cp.best_diff >= final_diff" replaced by a constant
found_better_path_always(neighbor_best_diff, final_diff) == TRUE

\* process_neighbors: if neighbor_cp.best_diff >= final_diff
found_better_path(neighbor_best_diff, final_diff) == neighbor_best_diff >= final_diff

\* a compute_difficulty_between_points call: arguments, the cost fields of cp
\* at the call, and the returned value
CallRecord(cp, neighbor_cp, t, ret) ==
    [cp |-> cp, neighbor_cp |-> neighbor_cp, trail |-> t,
     neighbor_best_diff |-> best_diff[neighbor_cp],
     cp_best_diff |-> best_diff[cp], cp_total_dist |-> total_dist[cp],
     cp_total_elev_gain |-> total_elev_gain[cp], cp_total_descent |-> total_descent[cp],
     ret |-> ret]

(* process_neighbors, the body of the loops for one neighbor and one trail: *)
(* the values of the cost fields, collections and queue after it.          *)
process_neighbor(cp, neighbor_cp, trail) ==
    LET fwd == compute_difficulty_between_points(cp, neighbor_cp, trail)
        better == found_better_path(best_diff[neighbor_cp], fwd.total_diff)
        opp == compute_difficulty_between_points(neighbor_cp, cp, trail)
        domerge == ~better /\ opp.total_diff > best_diff[cp]
        merged == merge_segments_and_difficulties(
                      fwd.results, fwd.difficulty_at_distances,
                      opp.results, opp.difficulty_at_distances)
        bd == IF better THEN [best_diff EXCEPT ![neighbor_cp] = fwd.total_diff]
              ELSE best_diff
    IN  [best_diff |-> bd,
         dist_on_roads |->
             IF better THEN [dist_on_roads EXCEPT ![neighbor_cp] = dist_on_roads[cp]]
             ELSE dist_on_roads,
         total_dist |->
             IF better THEN [total_dist EXCEPT ![neighbor_cp] = fwd.total_dist]
             ELSE total_dist,
         total_elev_gain |->
             IF better THEN [total_elev_gain EXCEPT ![neighbor_cp] = fwd.total_elev_gain]
             ELSE total_elev_gain,
         total_descent |->
             IF better THEN [total_descent EXCEPT ![neighbor_cp] = fwd.total_descent]
             ELSE total_descent,
         trail_difficulty_by_distance |->
             IF better
             THEN DictSet(trail_difficulty_by_distance, trail, fwd.difficulty_at_distances)
             ELSE IF domerge
             THEN DictSet(trail_difficulty_by_distance, trail, merged.merged_diff_map)
             ELSE trail_difficulty_by_distance,
         all_segments_dijk |->
             IF better THEN all_segments_dijk \o fwd.results
             ELSE IF domerge
             THEN remove_segments_between(all_segments_dijk, trail, neighbor_cp, cp)
                      \o merged.merged_segments
             ELSE all_segments_dijk,
         queue |-> heappush(bd, queue, neighbor_cp),
         calls |-> IF better THEN <<CallRecord(cp, neighbor_cp, trail, fwd)>>
                   ELSE <<CallRecord(cp, neighbor_cp, trail, fwd),
                          CallRecord(neighbor_cp, cp, trail, opp)>>]

\* process_neighbors: the loops advance to the next trail of the neighbor, to
\* the next neighbor, or return to the main loop
NextNeighbor ==
    IF tj < Len(dict_neighbors[cur][ni].trails)
    THEN tj' = tj + 1 /\ UNCHANGED <<ni, cur, dpc>>
    ELSE IF FirstEntry(cur, ni + 1) # 0
    THEN ni' = FirstEntry(cur, ni + 1) /\ tj' = 1 /\ UNCHANGED <<cur, dpc>>
    ELSE dpc' = "loop" /\ UNCHANGED <<cur, ni, tj>>

(* process_neighbors: one iteration of the inner loop, then the next one   *)
(* or the return to the main loop.                                         *)
Relax ==
    /\ dpc = "relax"
    /\ \E st \in {process_neighbor(cur, dict_neighbors[cur][ni].nb,
                                   dict_neighbors[cur][ni].trails[tj])} :
           /\ best_diff' = st.best_diff
           /\ dist_on_roads' = st.dist_on_roads
           /\ total_dist' = st.total_dist
           /\ total_elev_gain' = st.total_elev_gain
           /\ total_descent' = st.total_descent
           /\ trail_difficulty_by_distance' = st.trail_difficulty_by_distance
           /\ all_segments_dijk' = st.all_segments_dijk
           /\ queue' = st.queue
           /\ calls' = st.calls
    /\ NextNeighbor
    /\ UNCHANGED <<world, visited, list_visited, metrics>>
    /\ UNCHANGED <<bvars, pvars, gvars>>

\* the maximum of a non-empty sequence of numbers
SeqMax(s) == CHOOSE m \in {s[i] : i \in 1..Len(s)} : \A i \in 1..Len(s) : s[i] <= m

\* round(total / n, 2) in hundredths, ties to even
RoundedMean(total, n) ==
    LET q == (100 * total) \div n
        r == (100 * total) % n
    IN  IF 2 * r < n THEN q
        ELSE IF 2 * r > n THEN q + 1
        ELSE IF q % 2 = 0 THEN q ELSE q + 1

(* dijkstra, lines 297-318: the queue is empty, the metrics are computed *)
Finish ==
    /\ dpc = "loop"
    /\ queue = <<>>
    /\ LET segment_difficulties ==
               [i \in 1..Len(all_segments_dijk) |-> all_segments_dijk[i].seg_diff]
       IN  metrics' =
             [cutting_points_processed |-> Len(list_visited),
              segments_created |-> Len(all_segments_dijk),
              max_difficulty |-> IF Len(segment_difficulties) > 0
                                 THEN <<100 * SeqMax(segment_difficulties)>> ELSE <<>>,
              avg_seg_diff |-> IF Len(segment_difficulties) > 0
                               THEN <<RoundedMean(SeqSum(segment_difficulties),
                                                  Len(segment_difficulties))>>
                               ELSE <<>>]
    /\ dpc' = "done"
    /\ UNCHANGED <<world, best_diff, total_dist, total_elev_gain, total_descent,
                   dist_on_roads, queue, visited, list_visited, all_segments_dijk,
                   trail_difficulty_by_distance, cur, ni, tj, calls>>
    /\ UNCHANGED <<bvars, pvars, gvars>>

DijkstraNext == InitializeQueue \/ Pop \/ Relax \/ Finish

SpecDijkstra == DijkstraInit /\ [][DijkstraNext]_vars

\* the position of dijkstra: every step of process_neighbors changes it
pcvars == <<dpc, cur, ni, tj>>

\* the part of Relax that moves the position
RelaxControl == dpc = "relax" /\ NextNeighbor

\* the part of InitializeQueue that moves the position
InitializeQueueControl == dpc = "start" /\ dpc' \in {"loop", "raised"}

\* dijkstra is one sequential call: while a statement remains, the next one is
\* executed.  initialize_queue and a body of process_neighbors are always
\* executable, so their fairness is stated on their change of position.
SpecDijkstraLive ==
    /\ DijkstraInit /\ [][DijkstraNext]_vars
    /\ WF_dpc(InitializeQueueControl) /\ WF_vars(Pop) /\ WF_vars(Finish)
    /\ WF_pcvars(RelaxControl)

----------------------------------------------------------------------------
(* Properties of the propagation *)

Done == dpc = "done"

(* C1: no step of dijkstra (initialize_queue or process_neighbors) raises  *)
(* the best_diff of any CuttingPoint, visited or not.                      *)
C1_BestDiffNeverIncreases ==
    [][\A cp \in DOMAIN best_diff : best_diff'[cp] <= best_diff[cp]]_vars

\* the last relaxation lowered the best_diff of a CuttingPoint that had
\* already been visited
C1_Witness ==
    /\ Len(calls) = 1
    /\ calls[1].neighbor_cp \in visited
    /\ calls[1].neighbor_cp # calls[1].cp
    /\ best_diff[calls[1].neighbor_cp] < calls[1].neighbor_best_diff
    /\ calls[1].neighbor_best_diff < Inf

\* the step difficulty of a step: the absolute values of its samples that
\* are not the no-data sentinel, added up
StepDifficulty(t, seg) ==
    SeqSum([j \in 1..n_points |->
               IF SampleAt(t, seg, j - 1) = Nodata THEN 0 ELSE Abs(SampleAt(t, seg, j - 1))])

\* the steps between two CuttingPoints of a trail, in the order of travel
StepsBetween(cp, neighbor_cp, t) ==
    LET a == world.trails[t].at[cp]
        b == world.trails[t].at[neighbor_cp]
        forward == build_segments(Min2(a, b), Max2(a, b))
    IN  IF a <= b THEN forward ELSE Reverse(forward)

LinkDifficulty(cp, neighbor_cp, t) ==
    LET steps == StepsBetween(cp, neighbor_cp, t)
    IN  SeqSum([k \in 1..Len(steps) |-> StepDifficulty(t, steps[k])])

SetMin(S) == CHOOSE x \in S : \A y \in S : x <= y

\* one more link allowed: the least difficulties of the CuttingPoints v, v + 1, ...
\* from the least difficulties d over the paths with one link less
RECURSIVE OneMoreLink(_, _)
OneMoreLink(d, v) ==
    IF v > Len(d) THEN <<>>
    ELSE <<SetMin({d[v]} \cup
               UNION {UNION {{Plus(d[u], LinkDifficulty(u, v, dict_neighbors[u][e].trails[j])) :
                                 j \in 1..Len(dict_neighbors[u][e].trails)} :
                             e \in {x \in 1..Len(dict_neighbors[u]) :
                                        dict_neighbors[u][x].nb = v}} :
                      u \in 1..Len(d)})>>
         \o OneMoreLink(d, v + 1)

\* the least sum of step difficulties over the paths of at most k more links
RECURSIVE LeastDifficulty(_, _)
LeastDifficulty(d, k) ==
    IF k = 0 THEN d ELSE LeastDifficulty(OneMoreLink(d, 1), k - 1)

\* for every CuttingPoint, the least sum of step difficulties over the paths
\* from any seed
ShortestDifficulty ==
    LeastDifficulty([v \in CPs |-> IF InSeq(v, starting_points) THEN 0 ELSE Inf], world.ncp)

(* C2: when dijkstra has terminated, every CuttingPoint reachable from a   *)
(* seed holds as best_diff the least sum of step difficulties over the     *)
(* paths from a seed along the (neighbor, trail) links; seeds hold 0.      *)
C2_BestDiffIsShortestPath ==
    Done => \A d \in {ShortestDifficulty} : \A cp \in CPs :
                d[cp] < Inf => best_diff[cp] = d[cp]

StepOf(result) == [start_dist |-> result.geometry[1], end_dist |-> result.geometry[2]]

\* the difficulty chain of one compute_difficulty_between_points call
DifficultyChain(c) ==
    LET r == c.ret.results
    IN  /\ \A k \in 1..Len(r) :
              /\ r[k].seg_diff = StepDifficulty(c.trail, StepOf(r[k]))
              /\ r[k].total_diff =
                     Plus(IF k = 1 THEN c.cp_best_diff ELSE r[k - 1].total_diff, r[k].seg_diff)
        /\ Len(r) > 0 => c.ret.total_diff = r[Len(r)].total_diff

AllNodata(t, seg) == \A j \in 0..(n_points - 1) : SampleAt(t, seg, j) = Nodata

\* what one compute_difficulty_between_points call emitted and carried
\* along, against the steps of the call that are not all no-data
SkipsNodataSteps(c) ==
    LET steps == StepsBetween(c.cp, c.neighbor_cp, c.trail)
        kept == SelectSeq(steps, LAMBDA seg : ~AllNodata(c.trail, seg))
        forward == world.trails[c.trail].at[c.cp] <= world.trails[c.trail].at[c.neighbor_cp]
        r == c.ret.results
        before(k) == IF k = 1
                     THEN [total_diff |-> c.cp_best_diff, total_dist |-> c.cp_total_dist,
                           total_elev_gain |-> c.cp_total_elev_gain,
                           total_descent |-> c.cp_total_descent]
                     ELSE [total_diff |-> r[k - 1].total_diff, total_dist |-> r[k - 1].total_dist,
                           total_elev_gain |-> r[k - 1].total_elev_gain,
                           total_descent |-> r[k - 1].total_descent]
    IN  /\ Len(r) = Len(kept)
        /\ \A k \in 1..Len(r) :
              /\ StepOf(r[k]) = kept[k]
              /\ r[k].total_diff = Plus(before(k).total_diff, r[k].seg_diff)
              /\ r[k].total_dist = Plus(before(k).total_dist, r[k].segment_length)
              /\ r[k].total_elev_gain = Plus(before(k).total_elev_gain, r[k].elevation_gain)
              /\ r[k].total_descent = Plus(before(k).total_descent, r[k].descent)
        /\ DictKeys(c.ret.difficulty_at_distances) =
               {IF forward THEN kept[k].start_dist ELSE kept[k].end_dist : k \in 1..Len(kept)}
        /\ LET last == before(Len(r) + 1)
           IN  /\ c.ret.total_diff = last.total_diff
               /\ c.ret.total_dist = last.total_dist
               /\ c.ret.total_elev_gain = last.total_elev_gain
               /\ c.ret.total_descent = last.total_descent

(* C10: in compute_difficulty_between_points a step whose samples all      *)
(* equal the no-data sentinel gives no entry of the returned segment list  *)
(* and no key of the difficulty map, and the cumulative difficulty,        *)
(* distance, elevation gain and descent carried into the next step are     *)
(* those carried into the skipped step.                                    *)
C10_NodataStepSkipped ==
    \A i \in 1..Len(calls) : SkipsNodataSteps(calls[i])

\* a call with an all-no-data step between two emitted steps
C10_Witness ==
    \E i \in 1..Len(calls) :
        LET steps == StepsBetween(calls[i].cp, calls[i].neighbor_cp, calls[i].trail)
        IN  /\ Len(calls[i].ret.results) = 2
            /\ \E k \in 2..(Len(steps) - 1) :
                   /\ AllNodata(calls[i].trail, steps[k])
                   /\ ~AllNodata(calls[i].trail, steps[k - 1])
                   /\ ~AllNodata(calls[i].trail, steps[k + 1])

(* C16: on every finite graph, with zero-cost links, repeated trails in a  *)
(* neighbor list and a CuttingPoint that is its own neighbor, the main     *)
(* loop of dijkstra eventually empties the queue and dijkstra returns.     *)
C16_DijkstraReturns == <>Done

\* dijkstra returned on a graph with a self-neighbor, a trail listed twice and
\* a zero-cost link, after visiting every CuttingPoint
C16_Witness ==
    /\ Done
    /\ queue = <<>>
    /\ Len(list_visited) = world.ncp
    /\ \E cp \in CPs :
         /\ cp \in DNKeys(dict_neighbors[cp])
         /\ ~NoRepeat(DNGet(dict_neighbors[cp], cp))
    /\ \E a, b \in CPs : a # b /\ best_diff[a] = best_diff[b]

(* C20: whenever the main loop pops a CuttingPoint that is not yet visited *)
(* and marks it visited, its best_diff is at most the best_diff of every   *)
(* CuttingPoint still in the queue and not yet visited.                    *)
C20_PoppedIsMinimal ==
    [][list_visited' # list_visited =>
          LET cp == list_visited'[Len(list_visited')]
          IN  \A i \in 1..Len(queue') :
                  queue'[i] \notin visited' => best_diff[cp] <= best_diff[queue'[i]]]_vars

----------------------------------------------------------------------------
(* Properties of dist_on_road, as initialize_queue stores its results *)

Seeds == {cp \in CPs : InSeq(cp, starting_points)}

\* initialize_queue has returned and nothing has been popped yet
Seeded == dpc = "loop" /\ list_visited = <<>>

NearestRoad(pt) == world.roads[closest_idx(pt)]

\* the roads of a layer share no point, so the only road paths run along one
\* road: no path joins a CuttingPoint to the start point when their nearest
\* roads differ, or when there is no road
NoRoadPath(cp) ==
    \/ Len(world.roads) = 0
    \/ closest_idx(world.road_geom[cp]) # closest_idx(world.start_point)

(* C12: a seed whose position has no path through the road network to the *)
(* start point gets the road distance +infinity, and the propagation is    *)
(* not aborted.                                                            *)
C12_UnreachableSeedInfinite ==
    /\ dpc # "raised"
    /\ Seeded => \A cp \in Seeds : NoRoadPath(cp) => dist_on_roads[cp] = Inf

(* C13: with a road layer without geometries, or a nearest road that is    *)
(* not a LineString, dist_on_road returns +infinity and raises nothing.    *)
C13_NoRoadGivesInfinity ==
    /\ dpc # "raised"
    /\ Seeded =>
          \A cp \in Seeds :
              (\/ Len(world.roads) = 0
               \/ NearestRoad(world.road_geom[cp]).kind # "LineString")
                  => dist_on_roads[cp] = Inf

\* a seed was initialized against an empty road layer
C13_Witness == Seeded /\ Seeds # {} /\ Len(world.roads) = 0

\* the claimed road distance of a CuttingPoint whose nearest road is a
\* LineString: the length between the two projections
AlongRoad(cp) ==
    LET road == NearestRoad(world.road_geom[cp])
    IN  Abs(road_project(road, world.road_geom[cp]) - road_project(road, world.start_point))

(* C14: for a CuttingPoint whose nearest road is a LineString dist_on_road *)
(* is the along-road length between the projections of the CuttingPoint    *)
(* and of the start point: never negative, at most the road's length, and  *)
(* strictly between 0 and that length when the projections differ and are  *)
(* not the road's two ends.                                                *)
C14_AlongRoadLength ==
    Seeded =>
        \A cp \in Seeds :
            (Len(world.roads) > 0 /\ NearestRoad(world.road_geom[cp]).kind = "LineString")
                => LET road == NearestRoad(world.road_geom[cp])
                       a == road_project(road, world.road_geom[cp])
                       b == road_project(road, world.start_point)
                       d == dist_on_roads[cp]
                   IN  /\ d = AlongRoad(cp)
                       /\ d >= 0
                       /\ d <= road.len
                       /\ (a # b /\ {a, b} # {0, road.len}) => (0 < d /\ d < road.len)

\* a seed whose road stretch takes two steps, the last one shorter than 50
C14_Witness ==
    /\ Seeded
    /\ Len(world.roads) = 2
    /\ \E cp \in Seeds :
         /\ NearestRoad(world.road_geom[cp]).kind = "LineString"
         /\ dist_on_roads[cp] = 90

----------------------------------------------------------------------------
(* Properties of the seeding and of the visited CuttingPoints *)

\* initialize_queue has returned
Initialized == dpc \in {"loop", "relax", "done"}

(* C21: from the end of initialize_queue until dijkstra returns every seed *)
(* has best_diff 0; when initialize_queue returns every seed is in the     *)
(* queue with total_dist, total_elev_gain and total_descent 0, and every   *)
(* other CuttingPoint still holds +infinity in those fields.               *)
C21_SeedsAtZero ==
    /\ Initialized => \A cp \in CPs : is_connection_to_road[cp] => best_diff[cp] = 0
    /\ Seeded =>
          \A cp \in CPs :
              IF is_connection_to_road[cp]
              THEN /\ InSeq(cp, queue)
                   /\ total_dist[cp] = 0 /\ total_elev_gain[cp] = 0 /\ total_descent[cp] = 0
              ELSE /\ ~InSeq(cp, queue)
                   /\ total_dist[cp] = Inf /\ total_elev_gain[cp] = Inf
                   /\ total_descent[cp] = Inf

\* dijkstra returned after expanding a seed and a CuttingPoint that is no seed
C21_Witness ==
    /\ Done
    /\ \E a, b \in visited : is_connection_to_road[a] /\ ~is_connection_to_road[b]

----------------------------------------------------------------------------
(* Properties of the merge.  calls holds the two                           *)
(* compute_difficulty_between_points calls of the last relaxation: forward *)
(* (cp to neighbor) and opposite.                                          *)

\* the last relaxation merged: the neighbor was not improved and the opposite
\* final difficulty exceeds the best_diff of the expanded CuttingPoint
Merged ==
    /\ dpc \in {"relax", "loop"}
    /\ Len(calls) = 2
    /\ calls[2].ret.total_diff > calls[1].cp_best_diff

MapValue(m, d) == IF d \in DictKeys(m) THEN DictGet(m, d) ELSE Inf

\* the distance keys of the two difficulty maps of the last relaxation
MergeKeys ==
    DictKeys(calls[1].ret.difficulty_at_distances)
        \cup DictKeys(calls[2].ret.difficulty_at_distances)

\* the last n segments of the collection
LastSegments(n) ==
    SubSeq(all_segments_dijk, Len(all_segments_dijk) - n + 1, Len(all_segments_dijk))

(* C22: for every distance key of the forward or the backward map the      *)
(* merge returns the lower cumulative difficulty (a missing key counts as  *)
(* +infinity, the forward entry wins a tie) with the segment of the        *)
(* direction that supplied it, and nothing for other keys.                 *)
C22_MergeKeepsLower ==
    Merged =>
        LET fwd == calls[1].ret
            bwd == calls[2].ret
            merged_diff_map == DictGet(trail_difficulty_by_distance, calls[1].trail)
            ds == SortedSeq(MergeKeys)
            merged_segments == LastSegments(Len(ds))
        IN  /\ DictKeys(merged_diff_map) = MergeKeys
            /\ Len(all_segments_dijk) >= Len(ds)
            /\ \A k \in 1..Len(ds) :
                  LET val_fwd == MapValue(fwd.difficulty_at_distances, ds[k])
                      val_bwd == MapValue(bwd.difficulty_at_distances, ds[k])
                      from == IF val_fwd <= val_bwd THEN fwd.results ELSE bwd.results
                  IN  /\ DictGet(merged_diff_map, ds[k]) = Min2(val_fwd, val_bwd)
                      /\ merged_segments[k].posit_seg = ds[k]
                      /\ InSeq(merged_segments[k], from)
                      /\ merged_segments[k].total_diff = Min2(val_fwd, val_bwd)

\* a merge took segments of both directions
C22_Witness ==
    /\ Merged
    /\ \E d1, d2 \in MergeKeys :
          /\ MapValue(calls[1].ret.difficulty_at_distances, d1)
                 < MapValue(calls[2].ret.difficulty_at_distances, d1)
          /\ MapValue(calls[2].ret.difficulty_at_distances, d2)
                 < MapValue(calls[1].ret.difficulty_at_distances, d2)

\* the segments the last merge put in the collection
MergedSegments == LastSegments(Cardinality(MergeKeys))

(* C28: in the merge of process_neighbors a forward and a backward segment *)
(* with the same distance key describe the same step of the trail (same    *)
(* start and end distance), so the merged segments hold each step at most  *)
(* once and every step that has a segment in a direction has one after the *)
(* merge.                                                                  *)
C28_SameKeySameStep ==
    Merged =>
        LET fwd == calls[1].ret.results
            bwd == calls[2].ret.results
        IN  /\ \A i \in 1..Len(fwd) : \A j \in 1..Len(bwd) :
                  fwd[i].posit_seg = bwd[j].posit_seg => fwd[i].geometry = bwd[j].geometry
            /\ \A i, j \in 1..Len(MergedSegments) :
                  MergedSegments[i].geometry = MergedSegments[j].geometry => i = j
            /\ \A i \in 1..Len(fwd) :
                  \E j \in 1..Len(MergedSegments) :
                      MergedSegments[j].geometry = fwd[i].geometry

(* C29: for the same step of a trail, the elevation gain of the travel     *)
(* from cp to the neighbor is the negated descent of the travel from the   *)
(* neighbor to cp, and the descent the negated gain; the seg_diff of the   *)
(* step is the same in both directions.                                    *)
C29_GainIsOppositeDescent ==
    (dpc \in {"relax", "loop"} /\ Len(calls) = 2) =>
        LET fwd == calls[1].ret.results
            bwd == calls[2].ret.results
        IN  \A i \in 1..Len(fwd) : \A j \in 1..Len(bwd) :
                fwd[i].geometry = bwd[j].geometry =>
                    /\ fwd[i].elevation_gain = -bwd[j].descent
                    /\ fwd[i].descent = -bwd[j].elevation_gain
                    /\ fwd[i].seg_diff = bwd[j].seg_diff

\* the segment lies on trail t between the CuttingPoints a and b, either way
Between(seg, t, a, b) ==
    /\ seg.trail_id = t
    /\ \/ seg.start_cp = a /\ seg.end_cp = b
       \/ seg.start_cp = b /\ seg.end_cp = a

(* C23: when a relaxation of neighbor n from cp on trail t merges, the     *)
(* collection afterwards holds, among the segments of t between cp and n,  *)
(* exactly the merged segments; every other segment is kept unchanged, and *)
(* the cost fields of cp and n are not modified.                           *)
C23_MergeReplacesPair ==
    [][(dpc = "relax" /\ Merged') =>
          LET cp == cur
              n == dict_neighbors[cur][ni].nb
              t == dict_neighbors[cur][ni].trails[tj]
              merged == merge_segments_and_difficulties(
                            calls'[1].ret.results, calls'[1].ret.difficulty_at_distances,
                            calls'[2].ret.results, calls'[2].ret.difficulty_at_distances)
          IN  /\ SelectSeq(all_segments_dijk', LAMBDA seg : Between(seg, t, cp, n))
                    = merged.merged_segments
              /\ SelectSeq(all_segments_dijk', LAMBDA seg : ~Between(seg, t, cp, n))
                    = SelectSeq(all_segments_dijk, LAMBDA seg : ~Between(seg, t, cp, n))
              /\ \A x \in {cp, n} :
                    /\ best_diff'[x] = best_diff[x]
                    /\ total_dist'[x] = total_dist[x]
                    /\ total_elev_gain'[x] = total_elev_gain[x]
                    /\ total_descent'[x] = total_descent[x]
                    /\ dist_on_roads'[x] = dist_on_roads[x]]_vars

\* a merge left segments of another pair of CuttingPoints in the collection
C23_Witness ==
    /\ Merged
    /\ \E i, j \in 1..Len(all_segments_dijk) :
          /\ Between(all_segments_dijk[i], calls[1].trail, calls[1].cp, calls[1].neighbor_cp)
          /\ ~Between(all_segments_dijk[j], calls[1].trail, calls[1].cp, calls[1].neighbor_cp)

(* C24: once a CuttingPoint has been popped and marked visited, no later   *)
(* step of the run modifies its best_diff, total_dist, total_elev_gain,    *)
(* total_descent or dist_on_roads.                                         *)
C24_VisitedFieldsFrozen ==
    [][\A cp \in visited :
          /\ best_diff'[cp] = best_diff[cp]
          /\ total_dist'[cp] = total_dist[cp]
          /\ total_elev_gain'[cp] = total_elev_gain[cp]
          /\ total_descent'[cp] = total_descent[cp]
          /\ dist_on_roads'[cp] = dist_on_roads[cp]]_vars

\* the CuttingPoints reachable from S by following dict_neighbors keys
RECURSIVE ReachableFrom(_)
ReachableFrom(S) ==
    LET more == S \cup UNION {DNKeys(dict_neighbors[cp]) : cp \in S}
    IN  IF more = S THEN S ELSE ReachableFrom(more)

(* C25: when dijkstra returns, the expanded CuttingPoints are exactly      *)
(* those reachable from a seed through dict_neighbors keys, each expanded  *)
(* once, cutting_points_processed is their number, every other             *)
(* CuttingPoint still holds +infinity in its five cost fields, and with no *)
(* seed there is no segment and no maximum or mean difficulty.             *)
C25_ExpandedAreReachable ==
    Done =>
        /\ visited = ReachableFrom(Seeds)
        /\ {list_visited[k] : k \in 1..Len(list_visited)} = ReachableFrom(Seeds)
        /\ NoRepeat(list_visited)
        /\ metrics.cutting_points_processed = Cardinality(ReachableFrom(Seeds))
        /\ \A cp \in CPs \ ReachableFrom(Seeds) :
              /\ best_diff[cp] = Inf /\ total_dist[cp] = Inf
              /\ total_elev_gain[cp] = Inf /\ total_descent[cp] = Inf
              /\ dist_on_roads[cp] = Inf
        /\ Seeds = {} =>
              /\ all_segments_dijk = <<>>
              /\ metrics.segments_created = 0
              /\ metrics.max_difficulty = <<>>
              /\ metrics.avg_seg_diff = <<>>

\* dijkstra returned having expanded a CuttingPoint that is no seed and left
\* another one unreached
C25_Witness ==
    /\ Done
    /\ \E cp \in visited : ~is_connection_to_road[cp]
    /\ CPs \ visited # {}

----------------------------------------------------------------------------
(* run_difficulty_analysis (source/pipeline.py).  A box is [x1, x2, y1, y2] *)
(* on an integer grid.                                                     *)

(* Bound of the study-area inputs *)
MaxBox == 3

Boxes ==
    {[x1 |-> a, x2 |-> b, y1 |-> c, y2 |-> d] :
        a \in 0..MaxBox, b \in 0..MaxBox, c \in 0..MaxBox, d \in 0..MaxBox}

PipelineInputs ==
    {[small_box |-> sb, raster_bounds |-> rb, process_buffer |-> pb] :
        sb \in {x \in Boxes : x.x1 < x.x2 /\ x.y1 < x.y2},
        rb \in {x \in Boxes : x.x1 + 1 = x.x2 /\ x.y1 + 1 = x.y2 /\ x.x1 = x.y1},
        pb \in BOOLEAN}

\* study_area.intersects(raster_extent).any(): the closed boxes share a point
intersects(a, b) == a.x1 <= b.x2 /\ b.x1 <= a.x2 /\ a.y1 <= b.y2 /\ b.y1 <= a.y2

\* the names pipeline.py can resolve for the call of its line 69: its own
\* definitions and those of the modules it imports with *
PipelineNames ==
    {"load_input_data", "run_difficulty_analysis", "build_cutting_points",
     "build_graph_from_trails", "dijkstra", "generate_buffer_grid", "analyze_cells",
     "dist_on_road", "add_id_column", "decompose_multilines", "create_trails_dict"}

PipelineInit ==
    /\ pin \in PipelineInputs
    /\ ppc = "start" /\ stages = <<>> /\ returned = <<>>
    /\ inp = <<>> /\ phase = "idle" /\ ti = 1 /\ ek = 1 /\ oj = 1
    /\ endpoints = <<>> /\ all_cutting_points = {} /\ geom = <<>>
    /\ is_connection_to_road = <<>> /\ trails_dict = <<>> /\ dict_neighbors = <<>>
    /\ run = 1 /\ prev = <<>> /\ graph = <<>>
    /\ DijkstraIdle
    /\ BufferIdle

(* lines 30-57: the raster is opened, the layers are clipped and prepared *)
PrepareLayers ==
    /\ ppc = "start"
    /\ stages' = <<"open_raster", "clip", "decompose">>
    /\ ppc' = "extent"
    /\ UNCHANGED <<pin, returned>>
    /\ UNCHANGED <<bvars, dvars, gvars>>

(* lines 60-62: the study area against the raster extent *)
CheckExtent ==
    /\ ppc = "extent"
    /\ IF ~intersects(pin.small_box, pin.raster_bounds)
       THEN /\ returned' = [kind |-> "return", status |-> "STUDY_AREA_OUTSIDE_RASTER",
                            slots |-> <<"None", "None", "None", "None", "None">>]
            /\ ppc' = "returned"
       ELSE /\ returned' = returned
            /\ ppc' = "cutting_points"
    /\ UNCHANGED <<pin, stages>>
    /\ UNCHANGED <<bvars, dvars, gvars>>

(* line 69: the call initialize_cutting_points(trails_dict, roads,         *)
(* threshold_btw_cp); a name that is not defined raises NameError.         *)
InitializeCuttingPoints ==
    /\ ppc = "cutting_points"
    /\ "initialize_cutting_points" \notin PipelineNames
    /\ returned' = [kind |-> "raise", status |-> "NameError", slots |-> <<>>]
    /\ ppc' = "raised"
    /\ UNCHANGED <<pin, stages>>
    /\ UNCHANGED <<bvars, dvars, gvars>>

PipelineNext == PrepareLayers \/ CheckExtent \/ InitializeCuttingPoints

SpecPipeline == PipelineInit /\ [][PipelineNext]_vars

\* the call has ended, by a return or by an exception
PipelineEnded == ppc \in {"returned", "raised"}

----------------------------------------------------------------------------
(* Buffer analysis (source/buffer.py).  A segment is horizontal, from      *)
(* (x1, y) to (x2, y), and carries its total_diff.  Positions of cell      *)
(* points are kept doubled, so that half cells are integers, and distances *)
(* squared; the weights are in tenths.                                     *)

(* Bound of the segment lengths, in units of 5 *)
MaxSegLen == 3

Segment(x1, x2, y, td) == [x1 |-> x1, x2 |-> x2, y |-> y, total_diff |-> td]

BufferSegments ==
    {<<Segment(0, 5 * k, 0, td)>> : k \in 1..MaxSegLen, td \in {0, 3}}
    \cup {<<Segment(0, 5 * k, 0, 3), Segment(5, 5 + 5 * k, 15, 1)>> : k \in 1..MaxSegLen}

\* the altitude raster: its origin (west, north), its cell size and its
\* values, 1 + slope * (row + col) at pixel (row, col)
AltitudeRasters ==
    {[west |-> o[1], north |-> o[2], cell |-> 5, slope |-> sl] :
        o \in {<<-10, 10>>, <<-20, 30>>}, sl \in {0, 1}}

SetMax(S) == CHOOSE m \in S : \A x \in S : x <= m

\* buffered.bounds: <<minx, miny, maxx, maxy>> of the buffered union
buffered_bounds(segments, buffer_width) ==
    LET n == 1..Len(segments)
    IN  <<SetMin({segments[i].x1 : i \in n}) - buffer_width,
          SetMin({segments[i].y : i \in n}) - buffer_width,
          SetMax({segments[i].x2 : i \in n}) + buffer_width,
          SetMax({segments[i].y : i \in n}) + buffer_width>>

\* the altitude raster covers the buffered area
Covers(alt, bounds) == alt.west <= bounds[1] /\ alt.north >= bounds[4]

BufferInputs ==
    {g \in [segments : BufferSegments, buffer_width : {5, 10}, cell_size : {4, 5},
            raster_altitude : AltitudeRasters,
            w_diff_on_tr : {8, 5}, w_diff_off_tr : {2, 5}] :
        /\ Covers(g.raster_altitude, buffered_bounds(g.segments, g.buffer_width))
        /\ g.w_diff_on_tr + g.w_diff_off_tr = 10}

\* rasterio.transform.from_origin(west, north, xsize, ysize)
from_origin(west, north, xsize, ysize) ==
    [west |-> west, north |-> north, xsize |-> xsize, ysize |-> ysize]

\* rasterio.transform.xy(transform, row, col, offset="center"), doubled
xy_center(tr, row, col) ==
    <<2 * tr.west + (2 * col + 1) * tr.xsize, 2 * tr.north - (2 * row + 1) * tr.ysize>>

\* the upper left corner of the cell, doubled
rasterize_corner(tr, row, col) ==
    <<2 * tr.west + 2 * col * tr.xsize, 2 * tr.north - 2 * row * tr.ysize>>

\* rasterize, all_touched=False: the point of a cell that is tested against
\* the polygon is the centre of the cell, doubled
rasterize_point(tr, row, col) ==
    <<2 * tr.west + (2 * col + 1) * tr.xsize, 2 * tr.north - (2 * row + 1) * tr.ysize>>

\* geometry.distance(point) of a segment, doubled and squared
segment_distance2(seg, p) ==
    LET dx == Max2(Max2(2 * seg.x1 - p[1], p[1] - 2 * seg.x2), 0)
        dy == p[2] - 2 * seg.y
    IN  dx * dx + dy * dy

\* union.buffer(buffer_width) replaces the round ends by polygons of 16
\* edges per quarter circle, inscribed in the circle: a point is inside for
\* sure beside the segment, or within cos(pi/64) of the radius (0.997 of its
\* square) of it
inside_buffer(segments, buffer_width, p) ==
    \E i \in 1..Len(segments) :
        \/ /\ 2 * segments[i].x1 <= p[1] /\ p[1] <= 2 * segments[i].x2
           /\ segment_distance2(segments[i], p) < 4 * buffer_width * buffer_width
        \/ 1000 * segment_distance2(segments[i], p) < 997 * 4 * buffer_width * buffer_width

\* a point on the boundary, or between the polygon's edges and the circle
maybe_inside_buffer(segments, buffer_width, p) ==
    /\ ~inside_buffer(segments, buffer_width, p)
    /\ \E i \in 1..Len(segments) :
          segment_distance2(segments[i], p) <= 4 * buffer_width * buffer_width

\* the cells of the output shape
grid_cells(height, width) == (0..(height - 1)) \X (0..(width - 1))

(* generate_buffer_grid: the masks it can return, with the transform *)
generate_buffer_grid(segments, buffer_width, cell_size) ==
    LET bounds == buffered_bounds(segments, buffer_width)
        width == (bounds[3] - bounds[1]) \div cell_size
        height == (bounds[4] - bounds[2]) \div cell_size
        tr == from_origin(bounds[1], bounds[4], cell_size, cell_size)
        sure == {rc \in grid_cells(height, width) :
                    inside_buffer(segments, buffer_width, rasterize_point(tr, rc[1], rc[2]))}
        maybe == {rc \in grid_cells(height, width) :
                    maybe_inside_buffer(segments, buffer_width, rasterize_point(tr, rc[1], rc[2]))}
    IN  {[mask |-> sure \cup m, transform |-> tr] : m \in SUBSET maybe}

\* mask.nonzero(): the cells set to 1, by rows and then by columns
RECURSIVE nonzero(_)
nonzero(cells) ==
    IF cells = {} THEN <<>>
    ELSE LET first == CHOOSE a \in cells :
                        \A b \in cells : a[1] < b[1] \/ (a[1] = b[1] /\ a[2] <= b[2])
         IN  <<first>> \o nonzero(cells \ {first})

\* raster_altitude.read(1, window=Window(col, row, 1, 1))[0, 0]
read_window(alt, col, row) == 1 + alt.slope * (row + col)

\* the largest s with s * s <= n
ISqrt(n) == CHOOSE sq \in 0..n : sq * sq <= n /\ n < (sq + 1) * (sq + 1)

\* a * sqrt(d2) * w_on + 2 * t * w_off, twenty times the difficulty of a cell
\* at doubled squared distance d2: the rational part, and the coefficient of
\* the root when it is irrational
difficulty_value(a, d2, t, w_on, w_off) ==
    LET sq == ISqrt(d2)
    IN  IF sq * sq = d2
        THEN [rational |-> a * sq * w_on + 2 * t * w_off, coefficient |-> 0, root |-> 1]
        ELSE IF a * w_on = 0
        THEN [rational |-> 2 * t * w_off, coefficient |-> 0, root |-> 1]
        ELSE [rational |-> 2 * t * w_off, coefficient |-> a * w_on, root |-> d2]

\* min(distances, key=lambda x: x[1]): the first segment at the least distance
nearest_segment(segments, p) ==
    CHOOSE i \in 1..Len(segments) :
        /\ \A j \in 1..Len(segments) :
              segment_distance2(segments[i], p) <= segment_distance2(segments[j], p)
        /\ \A j \in 1..(i - 1) :
              segment_distance2(segments[j], p) > segment_distance2(segments[i], p)

(* analyze_cells, the body of the loop for the cell (row, col) *)
analyze_cell(tr, raster_altitude, segments, row, col) ==
    LET point == xy_center(tr, row, col)
        alt == read_window(raster_altitude, col, row)
        nearest_seg == segments[nearest_segment(segments, point)]
        dist_to_seg == segment_distance2(nearest_seg, point)
    IN  [geometry |-> point,
         difficulty |-> difficulty_value(alt, dist_to_seg, nearest_seg.total_diff, 8, 2)]

BufferInit ==
    /\ gin \in BufferInputs
    /\ gpc = "start" /\ mask = {} /\ transform = <<>> /\ results = <<>>
    /\ inp = <<>> /\ phase = "idle" /\ ti = 1 /\ ek = 1 /\ oj = 1
    /\ endpoints = <<>> /\ all_cutting_points = {} /\ geom = <<>>
    /\ is_connection_to_road = <<>> /\ trails_dict = <<>> /\ dict_neighbors = <<>>
    /\ run = 1 /\ prev = <<>> /\ graph = <<>>
    /\ DijkstraIdle
    /\ PipelineIdle

(* generate_buffer_grid(segments, buffer_width, cell_size) *)
GenerateBufferGrid ==
    /\ gpc = "start"
    /\ \E g \in generate_buffer_grid(gin.segments, gin.buffer_width, gin.cell_size) :
          /\ mask' = g.mask
          /\ transform' = g.transform
    /\ gpc' = "cells"
    /\ UNCHANGED <<gin, results>>
    /\ UNCHANGED <<bvars, dvars, pvars>>

(* analyze_cells: one iteration of the loop over mask.nonzero() *)
AnalyzeCell ==
    /\ gpc = "cells"
    /\ Len(results) < Cardinality(mask)
    /\ \E rc \in {nonzero(mask)[Len(results) + 1]} :
          results' = Append(results, analyze_cell(transform, gin.raster_altitude,
                                                  gin.segments, rc[1], rc[2]))
    /\ UNCHANGED <<gin, gpc, mask, transform>>
    /\ UNCHANGED <<bvars, dvars, pvars>>

(* analyze_cells: the loop is over, the cells are returned *)
ReturnCells ==
    /\ gpc = "cells"
    /\ Len(results) = Cardinality(mask)
    /\ gpc' = "done"
    /\ UNCHANGED <<gin, mask, transform, results>>
    /\ UNCHANGED <<bvars, dvars, pvars>>

BufferNext == GenerateBufferGrid \/ AnalyzeCell \/ ReturnCells

SpecBuffer == BufferInit /\ [][BufferNext]_vars

----------------------------------------------------------------------------
(* Properties of the buffer analysis *)

\* the doubled squared distance from the centre of a cell to the nearest segment
CentreDistance2(rc) ==
    LET point == xy_center(transform, rc[1], rc[2])
    IN  segment_distance2(gin.segments[nearest_segment(gin.segments, point)], point)

\* the buffer scenario: one straight segment, buffer_width 10, cell_size 5
BufferScenario ==
    Len(gin.segments) = 1 /\ gin.buffer_width = 10 /\ gin.cell_size = 5

\* the columns whose centres lie along the segment
ColumnsAlong(seg) ==
    {c \in {rc[2] : rc \in mask} :
        /\ 2 * seg.x1 <= xy_center(transform, 0, c)[1]
        /\ xy_center(transform, 0, c)[1] <= 2 * seg.x2}

(* C17: every cell set to 1 by generate_buffer_grid has its centre within  *)
(* buffer_width of the nearest segment; for one straight segment with      *)
(* buffer_width 10 and cell_size 5 some row of the mask holds a cell for   *)
(* every column along the segment.                                         *)
C17_MaskWithinBuffer ==
    gpc # "start" =>
        /\ \A rc \in mask : CentreDistance2(rc) <= 4 * gin.buffer_width * gin.buffer_width
        /\ BufferScenario =>
              \E r \in {rc[1] : rc \in mask} :
                  /\ ColumnsAlong(gin.segments[1]) # {}
                  /\ \A c \in ColumnsAlong(gin.segments[1]) : <<r, c>> \in mask

\* the buffer scenario was rasterized, with cells beyond the ends of the segment
C17_Witness ==
    /\ gpc = "done"
    /\ BufferScenario
    /\ \E rc \in mask : xy_center(transform, rc[1], rc[2])[1] < 2 * gin.segments[1].x1

\* the altitude raster's value at a doubled position
altitude_at(alt, p) ==
    read_window(alt, (p[1] - 2 * alt.west) \div (2 * alt.cell),
                     (2 * alt.north - p[2]) \div (2 * alt.cell))

(* C18: the difficulty of every analysed cell is altitude * distance to    *)
(* the nearest segment * w_diff_on_tr + total_diff of that segment *       *)
(* w_diff_off_tr, with the altitude at the cell centre's coordinates and   *)
(* the configured weights.                                                 *)
C18_ConfiguredWeightsAtCentre ==
    \A k \in 1..Len(results) :
        LET point == results[k].geometry
            nearest_seg == gin.segments[nearest_segment(gin.segments, point)]
        IN  results[k].difficulty =
                difficulty_value(altitude_at(gin.raster_altitude, point),
                                 segment_distance2(nearest_seg, point),
                                 nearest_seg.total_diff,
                                 gin.w_diff_on_tr, gin.w_diff_off_tr)

----------------------------------------------------------------------------
(* Study points (pipeline.py, analyze_study_points).  The raster opened    *)
(* from RASTER_PATH is an altitude raster with some no-data pixels; the    *)
(* segments are those of the propagation, horizontal as in the buffer      *)
(* analysis.  gin holds the arguments, transform the raster's transform    *)
(* and results the rows produced so far.                                   *)

(* Bound of the number of study points *)
MaxStudyPoints == 2

\* a segment of all_segments_dijk with the fields analyze_study_points reads
StudySegment(x1, x2, y, td) ==
    [x1 |-> x1, x2 |-> x2, y |-> y, total_diff |-> td, total_dist |-> x2 - x1,
     total_elev_gain |-> td, total_descent |-> -td, dist_road |-> 10 * td]

StudySegments ==
    {<<>>, <<StudySegment(0, 10, 0, 3)>>,
     <<StudySegment(0, 10, 0, 3), StudySegment(5, 15, 10, 1)>>,
     <<StudySegment(5, 15, 10, 0), StudySegment(0, 10, 0, 3)>>}

\* the positions a study point can have
StudyPositions == {<<0, 0>>, <<5, 5>>, <<-5, 0>>, <<12, 7>>, <<15, 10>>}

RECURSIVE SeqsUpTo(_, _)
SeqsUpTo(S, n) ==
    IF n = 0 THEN {<<>>}
    ELSE SeqsUpTo(S, n - 1)
           \cup {Append(q, x) : q \in {r \in SeqsUpTo(S, n - 1) : Len(r) = n - 1}, x \in S}

\* the raster of RASTER_PATH: an altitude raster and its no-data pixels (row, col)
StudyRasters ==
    {[west |-> o[1], north |-> o[2], cell |-> 5, slope |-> sl, holes |-> h] :
        o \in {<<-10, 10>>, <<-20, 30>>}, sl \in {0, 1}, h \in {{}, {<<2, 2>>, <<6, 4>>}}}

StudyInputs ==
    {g \in [study_points : SeqsUpTo(StudyPositions, MaxStudyPoints),
            segments : StudySegments,
            src : StudyRasters,
            w_diff_on_tr : {8, 5}, w_diff_off_tr : {2, 5}] :
        g.w_diff_on_tr + g.w_diff_off_tr = 10}

\* src.sample([(x, y)])[0][0] at a doubled position
src_sample(src, p) ==
    LET col == (p[1] - 2 * src.west) \div (2 * src.cell)
        row == (2 * src.north - p[2]) \div (2 * src.cell)
    IN  IF <<row, col>> \in src.holes THEN DefaultNodata ELSE read_window(src, col, row)

\* segment.interpolate(segment.project(point)), doubled
projected_point(seg, p) == <<Min2(Max2(p[1], 2 * seg.x1), 2 * seg.x2), 2 * seg.y>>

(* compute_alt_out_trail(point, segment, src): <<>> stands for None *)
compute_alt_out_trail(p, seg, src) ==
    LET val_original == src_sample(src, p)
        val_projected == src_sample(src, projected_point(seg, p))
    IN  IF val_original = DefaultNodata \/ val_projected = DefaultNodata
        THEN <<>>
        ELSE <<val_original - val_projected>>

(* analyze_study_points, the body of the loop for the point pt.  The       *)
(* altitude read through the window is not used afterwards.  Distances are *)
(* kept doubled and squared: float() is 0.0.                               *)
analyze_study_point(pt, segments, src, w_diff_on_tr, w_diff_off_tr) ==
    LET p == <<2 * pt[1], 2 * pt[2]>>
        nearest_seg == segments[nearest_segment(segments, p)]
        dist_to_seg == 0
        alt_out == compute_alt_out_trail(p, nearest_seg, src)
        diff_alt_w_trail == IF alt_out = <<>> THEN 0 ELSE alt_out[1]
    IN  [geometry |-> pt,
         dist_on_trails |-> nearest_seg.total_dist,
         total_elev_gain |-> nearest_seg.total_elev_gain,
         total_descent |-> nearest_seg.total_descent,
         dist_out_trail |-> dist_to_seg,
         diff_alt_w_trail |-> diff_alt_w_trail,
         dist_road |-> nearest_seg.dist_road,
         diff |-> difficulty_value(diff_alt_w_trail, dist_to_seg, nearest_seg.total_diff,
                                   w_diff_on_tr, w_diff_off_tr)]

StudyInit ==
    /\ gin \in StudyInputs
    /\ gpc = "points" /\ mask = {} /\ results = <<>>
    /\ transform = from_origin(gin.src.west, gin.src.north, gin.src.cell, gin.src.cell)
    /\ inp = <<>> /\ phase = "idle" /\ ti = 1 /\ ek = 1 /\ oj = 1
    /\ endpoints = <<>> /\ all_cutting_points = {} /\ geom = <<>>
    /\ is_connection_to_road = <<>> /\ trails_dict = <<>> /\ dict_neighbors = <<>>
    /\ run = 1 /\ prev = <<>> /\ graph = <<>>
    /\ DijkstraIdle
    /\ PipelineIdle

(* analyze_study_points: one iteration of the loop over study_points; min  *)
(* of an empty list of segments raises ValueError.                         *)
AnalyzeStudyPoint ==
    /\ gpc = "points"
    /\ Len(results) < Len(gin.study_points)
    /\ IF gin.segments = <<>>
       THEN gpc' = "raised" /\ results' = results
       ELSE /\ results' = Append(results,
                              analyze_study_point(gin.study_points[Len(results) + 1],
                                                  gin.segments, gin.src,
                                                  gin.w_diff_on_tr, gin.w_diff_off_tr))
            /\ gpc' = gpc
    /\ UNCHANGED <<gin, mask, transform>>
    /\ UNCHANGED <<bvars, dvars, pvars>>

(* analyze_study_points: the loop is over, the rows are returned *)
ReturnStudyPoints ==
    /\ gpc = "points"
    /\ Len(results) = Len(gin.study_points)
    /\ gpc' = "returned"
    /\ UNCHANGED <<gin, mask, transform, results>>
    /\ UNCHANGED <<bvars, dvars, pvars>>

StudyNext == AnalyzeStudyPoint \/ ReturnStudyPoints

SpecStudy == StudyInit /\ [][StudyNext]_vars

----------------------------------------------------------------------------
(* Properties of the study points *)

(* C30: for every study point the reported dist_out_trail is the geometric *)
(* distance from the point to its nearest segment, and diff is             *)
(* dist_out_trail * diff_alt_w_trail * w_diff_on_tr + total_diff of the    *)
(* nearest segment * w_diff_off_tr with that distance.                     *)
C30_StudyPointDistance ==
    \A k \in 1..Len(results) :
        LET p == <<2 * results[k].geometry[1], 2 * results[k].geometry[2]>>
            nearest_seg == gin.segments[nearest_segment(gin.segments, p)]
            d2 == segment_distance2(nearest_seg, p)
        IN  /\ results[k].dist_out_trail = d2
            /\ results[k].diff =
                   difficulty_value(results[k].diff_alt_w_trail, d2, nearest_seg.total_diff,
                                    gin.w_diff_on_tr, gin.w_diff_off_tr)

====
